---- MODULE Spec2Model ----
(***************************************************************************)
(* Chargeback attribution and aggregation engine (src/chargeback.py):      *)
(* ChargebackReport.generate_report walks the requested DGs, places every  *)
(* host, application and synthetic of each DG in the report tree           *)
(* (_process_host, _process_application, _process_synthetic), adds the     *)
(* unassigned entities, computes the totals (_calculate_totals) and        *)
(* filters the DG list.                                                    *)
(*                                                                         *)
(* Quantities.  The code divides Python floats.  The model keeps every     *)
(* quantity as an integer number of 1/Scale units, Scale being a common    *)
(* multiple of every possible divisor, so raw / len(charged_dgs) is exact  *)
(* rational division; floating-point rounding is abstracted away.          *)
(*                                                                         *)
(* Entries.  The pass-through fields 'id', 'name' and 'cloud' of an entry  *)
(* are left out: nothing in the engine reads them.  (chargeback.py:369     *)
(* reads host.cloud, a column src/models.py does not declare; the model    *)
(* takes the Host rows to carry it.)                                       *)
(***************************************************************************)
EXTENDS Integers, Sequences, FiniteSets, TLC

\* ------------------------------------------------------------------ bounds
\* Largest number of DGs one entity is tagged to.
MaxTagged == 2
\* Largest length of the dg_names list handed to generate_report.
MaxRequested == 2
\* Worker threads of a usage collector.  settings.py:29 sets 30; the model
\* runs the collectors with a pool smaller than the longest DG list, so that
\* both the initial batch and the refill of the pool happen.
DT_QUERIES_THREADS == 2

\* POST /generate requests of one run of the server (app/routes/chargeback.py:110).
MaxPosts == 3

\* ------------------------------------------------------ program constants
\* chargeback.py:62  priority_dgs = ['DIGIT C']
priority_dg == "DIGIT C"
UnassignedName == "Unassigned"

\* chargeback.py:29-37  self.usage_types
usage_types ==
    {"fullstack", "infra", "rum", "rum_with_sr",
     "browser_monitor", "http_monitor", "3rd_party_monitor"}

\* chargeback.py:44  self.entity_types (in processing order)
entity_types == <<"hosts", "applications", "synthetics">>

EntityTypeSet == {entity_types[i] : i \in 1..Len(entity_types)}

\* chargeback.py:745-753  usage type -> entity type
_determine_entity_type(usage_type) ==
    CASE usage_type \in {"fullstack", "infra"} -> "hosts"
      [] usage_type \in {"rum", "rum_with_sr"} -> "applications"
      [] OTHER -> "synthetics"

\* The usage types an entry of each entity type carries
\* (chargeback.py:356-359, 459-462, 567-571).
MetricsOf(entity_type) ==
    {m \in usage_types : _determine_entity_type(m) = entity_type}

\* ------------------------------------------------------------- quantities
RECURSIVE GCD(_, _)
GCD(a, b) == IF b = 0 THEN a ELSE GCD(b, a % b)

RECURSIVE LCMUpTo(_)
LCMUpTo(n) == IF n <= 1 THEN 1 ELSE LET l == LCMUpTo(n - 1) IN (l * n) \div GCD(l, n)

\* Quantities are counted in units of 1/Scale.
Scale == LCMUpTo(MaxTagged)

\* raw / n, exactly.
Div(raw, n) == (raw * Scale) \div n

\* ---------------------------------------------------- topology (database)
\* Names of the DG rows of the database (models.py:68-81).
DGNames == {"DIGIT C", "Alpha", "Beta"}

\* A name that may be requested but has no DG row.
ReqNames == DGNames \cup {"Ghost"}

\* dg.information_systems: the IS rows of a DG, in order (models.py:81).
ISOf(dg) == << [dg |-> dg, name |-> "IS1"] >>

AllIS == UNION {{ISOf(d)[i] : i \in 1..Len(ISOf(d))} : d \in DGNames}

\* Entity rows; dt_id is the identity (models.py:55, 106, 122).
ResIds == {"e1", "e2"}
ResOrder == <<"e1", "e2">>

MonitoringModes == {"FULL_STACK", "INFRASTRUCTURE", "NONE"}

Range(s) == {s[i] : i \in 1..Len(s)}

RECURSIVE DistinctSeqs(_, _)
\* Sequences of distinct elements of S, of length 1..n.
DistinctSeqs(S, n) ==
    IF n = 0 \/ S = {} THEN {}
    ELSE LET shorter == DistinctSeqs(S, n - 1)
         IN  {<<x>> : x \in S}
             \cup {<<p[1]>> \o p[2] : p \in {q \in S \X shorter : q[1] \notin Range(q[2])}}

\* host.dgs / app.dgs / synthetic.dgs: the DGs an entity is tagged to, in
\* the order the relationship yields them (models.py:65, 113, 132).  An
\* entity reached through dg.hosts has at least one DG.
TaggedLists == DistinctSeqs(DGNames, MaxTagged)

\* The engine treats every DG but 'DIGIT C' alike, so of two topologies that
\* differ by renaming those DGs one is kept: the first such DG of the first
\* entity is 'Alpha'.
Canonical(dgs) ==
    LET others == SelectSeq(dgs, LAMBDA d : d # priority_dg)
    IN  others = <<>> \/ Head(others) = "Alpha"

\* The rows an entity row can be (models.py:49-66, 100-133); its IS rows
\* belong to DGs it is tagged to (topology.py:263-270, 324-331, 384-391).
\* The managed flag of a host comes from its tags (topology.py:229) and the
\* engine only copies and counts it: the first host is managed in one of its
\* monitoring modes, the second host whenever present.
HostRows ==
    {[kind |-> "hosts", dgs |-> d, iss |-> i, monitoring_mode |-> mm,
      managed |-> (mm = "INFRASTRUCTURE")] :
        d \in TaggedLists, i \in SUBSET AllIS, mm \in MonitoringModes}

OtherRows(kind) ==
    {[kind |-> kind, dgs |-> d, iss |-> i, monitoring_mode |-> "", managed |-> FALSE] :
        d \in TaggedLists, i \in SUBSET AllIS}

WellFormedRow(r) == \A is \in r.iss : is.dg \in Range(r.dgs)

EntityRows ==
    {r \in HostRows \cup OtherRows("applications") \cup OtherRows("synthetics") :
        WellFormedRow(r) /\ Canonical(r.dgs)}

\* The second entity is of the kind of the first, tagged to the last DG of
\* the first and in the same IS there, so that the two can share a bucket.
CompanionRow(first) ==
    LET d == first.dgs[Len(first.dgs)]
    IN  [kind |-> first.kind,
         dgs |-> <<d>>,
         iss |-> {is \in first.iss : is.dg = d},
         monitoring_mode |-> IF first.kind = "hosts" THEN "FULL_STACK" ELSE "",
         managed |-> first.kind = "hosts"]

Topologies ==
    {[id \in ResIds |-> IF id = "e1" THEN r ELSE CompanionRow(r)] : r \in EntityRows}

\* update_host marks every IS of a host managed (topology.py:271-274); the
\* managed flag of an IS without hosts comes from its name
\* (topology.py:205-206).  An IS without members never shows in the report.
ManagedSets(topo) ==
    LET members(k) == UNION {topo[id].iss : id \in {i \in DOMAIN topo : topo[i].kind = k}}
        other == (members("applications") \cup members("synthetics")) \ members("hosts")
    IN  {members("hosts") \cup s : s \in SUBSET other}

\* Raw usage of the reporting window, as the Dynatrace queries return it.
RawOf(id, m) ==
    IF id = "e1"
    THEN CASE m = "fullstack" -> 100 [] m = "infra" -> 60
           [] m = "rum" -> 30 [] m = "rum_with_sr" -> 12
           [] m = "browser_monitor" -> 50 [] m = "http_monitor" -> 20
           [] OTHER -> 8
    ELSE 7

\* The usage types the first entity has usage for.
UsagePatterns(kind) ==
    IF kind = "synthetics"
    THEN {{}, {"browser_monitor"}, MetricsOf(kind)}
    ELSE SUBSET MetricsOf(kind)

\* usage_data[usage_type][dt_id]; an identity without a record reads 0.0
\* (chargeback.py:319-320, 424-425, 530-532).  The second entity has usage
\* for every usage type of its kind.
UsageDatas(topo) ==
    {[m \in usage_types |->
        [id \in ResIds |->
            IF id \in DOMAIN topo /\ m \in MetricsOf(topo[id].kind) /\ (id = "e1" => m \in pos)
            THEN RawOf(id, m) ELSE 0]] :
        pos \in UsagePatterns(topo["e1"].kind)}

\* ------------------------------------------------------------------ state
VARIABLES
    resources,          \* entity rows of the database, by dt_id
    managed_is,         \* the IS rows with managed = True (models.py:92)
    usage_data,         \* collected usage (chargeback.py:74)
    include_non_charged_entities_in_dg,     \* chargeback.py:40
    process_unassigned, \* chargeback.py:39
    processed_entities, \* chargeback.py:38
    dg_names,           \* chargeback.py:66, the sorted request
    report,             \* chargeback.py:78-90
    pc,                 \* position in generate_report
    di,                 \* index of the DG of the loop at chargeback.py:93
    ei,                 \* index of the entity of the loops at chargeback.py:106-111
    last,               \* the latest processor call: entity, charged and placed DGs
    calls,              \* number of processor calls per entity
    res_order,          \* the order in which dg.hosts etc. yield the entities
    run,                \* number of the generate_report invocation
    first,              \* the report the first invocation returned
    collector,          \* the running retrieve_*_usage call (usage.py:34-75)
    is_rows,            \* IS.managed of every IS row (models.py:92)
    host_rows,          \* the Host rows update_host wrote (topology.py:241-248, 275-276)
    refreshed,          \* the latest update_host call (topology.py:220)
    report_status,      \* the global of app/routes/chargeback.py:28
    background_tasks,   \* the generate_report_background tasks and their Report rows
    responses           \* the answers of POST /generate, oldest first

vars ==
    <<resources, managed_is, usage_data, include_non_charged_entities_in_dg,
      process_unassigned, processed_entities, dg_names, report, pc, di, ei, last, calls,
      res_order, run, first, collector,
      is_rows, host_rows, refreshed, report_status, background_tasks, responses>>

\* The variables of the topology refresh and of the HTTP routes.
Services == <<is_rows, host_rows, refreshed, report_status, background_tasks, responses>>

\* ------------------------------------------------------------ report tree
ZeroUsage == [m \in usage_types |-> 0]

ZeroTotals ==
    [usage |-> ZeroUsage, entities |-> [t \in EntityTypeSet |-> 0], managed_hosts |-> 0]

EmptyBuckets == [t \in EntityTypeSet |-> <<>>]

\* chargeback.py:259-284
_create_dg_report_structure(dg) ==
    [name |-> dg,
     information_systems |-> <<>>,
     unassigned_entities |-> [entities |-> EmptyBuckets, usage |-> ZeroUsage],
     totals |-> ZeroTotals]

\* chargeback.py:286-304
_create_is_report_structure(is) ==
    [name |-> is.name,
     managed |-> is \in managed_is,
     entities |-> EmptyBuckets,
     usage |-> ZeroUsage]

\* chargeback.py:78-90
EmptyReport == [dgs |-> <<>>, totals |-> ZeroTotals, unassigned_totals |-> ZeroTotals]

\* next((i for i, x in enumerate(seq) if x['name'] == name), None); 0 is None.
IndexOfName(seq, name) ==
    IF \E i \in 1..Len(seq) : seq[i].name = name
    THEN CHOOSE i \in 1..Len(seq) : seq[i].name = name /\ \A j \in 1..(i - 1) : seq[j].name # name
    ELSE 0

\* Mutant of HasId: the identity check never finds the entry.
HasId_never(bucket, dt_id) == FALSE

\* any(d['dt_id'] == dt_id for d in bucket)
HasId(bucket, dt_id) == \E i \in 1..Len(bucket) : bucket[i].dt_id = dt_id

\* Mutant of AppendDedup: the entry is appended without the identity check.
AppendDedup_always(bucket, entry) == Append(bucket, entry)

\* Append unless an entry of that identity is there (chargeback.py:391-394,
\* 398-402, 497-500, 504-508, 607-610, 614-618).
AppendDedup(bucket, entry) ==
    IF HasId(bucket, entry.dt_id) THEN bucket ELSE Append(bucket, entry)

\* Mutant of EnsureDGs: no node is created for a tagged DG.
EnsureDGs_none(dgs, tagged) == dgs

\* Mutant of EnsureDGs: a node is appended for every tagged DG, the name
\* check left out.
RECURSIVE EnsureDGs_always(_, _)
EnsureDGs_always(dgs, tagged) ==
    IF tagged = <<>> THEN dgs
    ELSE EnsureDGs_always(Append(dgs, _create_dg_report_structure(Head(tagged))), Tail(tagged))

\* chargeback.py:342-346, 445-449, 553-557: a node for every tagged DG.
RECURSIVE EnsureDGs(_, _)
EnsureDGs(dgs, tagged) ==
    IF tagged = <<>> THEN dgs
    ELSE LET d == Head(tagged)
             ext == IF \E i \in 1..Len(dgs) : dgs[i].name = d
                    THEN dgs ELSE Append(dgs, _create_dg_report_structure(d))
         IN  EnsureDGs(ext, Tail(tagged))

\* next((is_obj for is_obj in dg.information_systems if e in is_obj.hosts), None):
\* the index in ISOf(dg) of the first IS the entity is a member of, 0 if none.
MatchingIS(dg, row) ==
    LET iss == ISOf(dg)
    IN  IF \E i \in 1..Len(iss) : iss[i] \in row.iss
        THEN CHOOSE i \in 1..Len(iss) : iss[i] \in row.iss /\ \A j \in 1..(i - 1) : iss[j] \notin row.iss
        ELSE 0

\* One pass of the placement block for DG dg (chargeback.py:374-403,
\* 479-509, 589-619): into the bucket of the matching IS, or into the DG's
\* unassigned-in-unit bucket.
PlaceEntry(dgs, dg, row, entry) ==
    LET dg_index == IndexOfName(dgs, dg)
        k == row.kind
    IN  IF dg_index = 0 THEN dgs
        ELSE LET node == dgs[dg_index]
                 m == MatchingIS(dg, row)
             IN  IF m # 0
                 THEN LET is == ISOf(dg)[m]
                          found == IndexOfName(node.information_systems, is.name)
                          isnodes == IF found = 0
                                     THEN Append(node.information_systems,
                                                 _create_is_report_structure(is))
                                     ELSE node.information_systems
                          is_index == IF found = 0 THEN Len(isnodes) ELSE found
                      IN  [dgs EXCEPT ![dg_index].information_systems =
                              [isnodes EXCEPT ![is_index].entities[k] = AppendDedup(@, entry)]]
                 ELSE [dgs EXCEPT ![dg_index].unassigned_entities.entities[k] =
                                        AppendDedup(@, entry)]

\* ------------------------------------------------------- billing rules
\* chargeback_logic.py:115-125
host_is_billable(row) == row.monitoring_mode \in {"INFRASTRUCTURE", "FULL_STACK"}

\* chargeback_logic.py:127-131
app_is_billable(row) == ~ \E is \in row.iss : is \in managed_is

\* chargeback_logic.py:133-138
synthetic_is_billable(row) == ~ \E is \in row.iss : is \in managed_is

\* chargeback.py:334-337: the DGs a host is charged to.
host_charged_dgs(row) ==
    IF priority_dg \in Range(row.dgs) \/ ~ host_is_billable(row)
    THEN IF priority_dg \in Range(row.dgs) THEN <<priority_dg>> ELSE <<row.dgs[1]>>
    ELSE row.dgs

\* Mutant of other_charged_dgs: the DG of the loop at chargeback.py:93 that
\* reaches the entity first is the one charged.
other_charged_dgs_current(row) == <<dg_names[di]>>

\* Mutant of other_charged_dgs: no priority of 'DIGIT C'.
other_charged_dgs_no_priority(row) == row.dgs

\* chargeback.py:438-443, 545-551: the DGs an application or a synthetic is
\* charged to.
other_charged_dgs(row) ==
    IF priority_dg \in Range(row.dgs) THEN <<priority_dg>> ELSE row.dgs

\* Mutant of processed_dgs: only the charged DGs, whatever the include flag.
processed_dgs_charged_only(row, charged) == charged

\* chargeback.py:348-349, 451-452, 559-560
processed_dgs(row, charged) ==
    IF include_non_charged_entities_in_dg = FALSE THEN charged ELSE row.dgs

\* Mutant of host_usage: infra usage is kept beside fullstack usage.
host_usage_both(id, n) ==
    [m \in MetricsOf("hosts") |->
        IF usage_data[m][id] > 0 THEN Div(usage_data[m][id], n) ELSE 0]

\* Mutant of host_usage: the infra share does not look at the fullstack usage.
host_usage_no_exclusion(id, n) ==
    LET fullstack_usage == usage_data["fullstack"][id]
        infra_usage == usage_data["infra"][id]
    IN  [m \in MetricsOf("hosts") |->
            IF m = "fullstack"
            THEN IF fullstack_usage > 0 THEN Div(fullstack_usage, n) ELSE 0
            ELSE IF infra_usage > 0 THEN Div(infra_usage, n) ELSE 0]

\* chargeback.py:356-359: the usage of a host entry (the same in every DG it
\* is placed in).
host_usage(id, n) ==
    LET fullstack_usage == usage_data["fullstack"][id]
        infra_usage == usage_data["infra"][id]
    IN  [m \in MetricsOf("hosts") |->
            IF m = "fullstack"
            THEN IF fullstack_usage > 0 THEN Div(fullstack_usage, n) ELSE 0
            ELSE IF infra_usage > 0 /\ fullstack_usage = 0 THEN Div(infra_usage, n) ELSE 0]

\* Mutant of other_usage: the raw usage is not divided by the charged DGs.
other_usage_unsplit(id, kind, dg, charged) ==
    [m \in MetricsOf(kind) |->
        IF dg \in Range(charged) THEN usage_data[m][id] * Scale ELSE 0]

\* chargeback.py:458-467, 566-577: the usage of an application or synthetic
\* entry in DG dg.
other_usage(id, kind, dg, charged) ==
    [m \in MetricsOf(kind) |->
        IF dg \in Range(charged)
        THEN IF usage_data[m][id] > 0 THEN Div(usage_data[m][id], Len(charged)) ELSE 0
        ELSE 0]

\* chargeback.py:363-372
host_data(id, row, dg, charged) ==
    [dt_id |-> id,
     usage |-> host_usage(id, Len(charged)),
     managed |-> row.managed,
     billed |-> host_is_billable(row) /\ dg \in Range(charged),
     tagged_dgs |-> row.dgs]

\* Mutant of app_data: the entry is billed whatever the IS of the application.
app_data_always_billed(id, row, dg, charged) ==
    [dt_id |-> id,
     usage |-> other_usage(id, "applications", dg, charged),
     managed |-> FALSE,
     billed |-> TRUE,
     tagged_dgs |-> row.dgs]

\* chargeback.py:469-477
app_data(id, row, dg, charged) ==
    [dt_id |-> id,
     usage |-> other_usage(id, "applications", dg, charged),
     managed |-> FALSE,
     billed |-> app_is_billable(row),
     tagged_dgs |-> row.dgs]

\* chargeback.py:579-587
synthetic_data(id, row, dg, charged) ==
    [dt_id |-> id,
     usage |-> other_usage(id, "synthetics", dg, charged),
     managed |-> FALSE,
     billed |-> synthetic_is_billable(row),
     tagged_dgs |-> row.dgs]

EntryFor(id, row, dg, charged) ==
    CASE row.kind = "hosts" -> host_data(id, row, dg, charged)
      [] row.kind = "applications" -> app_data(id, row, dg, charged)
      [] OTHER -> synthetic_data(id, row, dg, charged)

\* The loop over processed_dgs (chargeback.py:352, 455, 563).
RECURSIVE PlaceAll(_, _, _, _, _)
PlaceAll(dgs, id, row, todo, charged) ==
    IF todo = <<>> THEN dgs
    ELSE PlaceAll(PlaceEntry(dgs, Head(todo), row, EntryFor(id, row, Head(todo), charged)),
                  id, row, Tail(todo), charged)

\* chargeback.py:306-405: the DG list of the report after _process_host.
_process_host(dgs, id) ==
    LET row == resources[id]
        charged == host_charged_dgs(row)
    IN  PlaceAll(EnsureDGs(dgs, row.dgs), id, row, processed_dgs(row, charged), charged)

\* chargeback.py:407-511
_process_application(dgs, id) ==
    LET row == resources[id]
        charged == other_charged_dgs(row)
    IN  IF id \in processed_entities THEN dgs
        ELSE PlaceAll(EnsureDGs(dgs, row.dgs), id, row, processed_dgs(row, charged), charged)

\* chargeback.py:513-621
_process_synthetic(dgs, id) ==
    LET row == resources[id]
        charged == other_charged_dgs(row)
    IN  IF id \in processed_entities THEN dgs
        ELSE PlaceAll(EnsureDGs(dgs, row.dgs), id, row, processed_dgs(row, charged), charged)

\* ------------------------------------------------------------ aggregation
RECURSIVE SumSeq(_)
SumSeq(seq) == IF seq = <<>> THEN 0 ELSE Head(seq) + SumSeq(Tail(seq))

\* Mutant of BilledUsage: the billed flag is not looked at.
BilledUsage_all(bucket, m) ==
    SumSeq([i \in 1..Len(bucket) |->
                IF m \in DOMAIN bucket[i].usage THEN bucket[i].usage[m] ELSE 0])

\* The part of a bucket's usage of type m that _calculate_totals adds up:
\* entries with billed = True only (chargeback.py:657-659, 669-671, 679-681,
\* 696-698, 707-709, 715-717).
BilledUsage(bucket, m) ==
    SumSeq([i \in 1..Len(bucket) |->
                IF bucket[i].billed /\ m \in DOMAIN bucket[i].usage
                THEN bucket[i].usage[m] ELSE 0])

\* Mutant of ManagedCount: only hosts with billed = True are counted.
ManagedCount_billed(bucket) ==
    SumSeq([i \in 1..Len(bucket) |->
                IF "managed" \in DOMAIN bucket[i] /\ bucket[i].managed /\ bucket[i].billed
                THEN 1 ELSE 0])

\* host.get('managed', False) over a bucket (chargeback.py:661-662, 700-701).
ManagedCount(bucket) ==
    SumSeq([i \in 1..Len(bucket) |->
                IF "managed" \in DOMAIN bucket[i] /\ bucket[i].managed THEN 1 ELSE 0])

\* Usage of type m over the three buckets of an IS node or of an
\* unassigned-in-unit record.
BucketsUsage(entities, m) ==
    BilledUsage(entities["hosts"], m) + BilledUsage(entities["applications"], m)
        + BilledUsage(entities["synthetics"], m)

\* chargeback.py:650-686: is_totals of one IS node.
is_totals(isnode) == [m \in usage_types |-> BucketsUsage(isnode.entities, m)]

\* chargeback.py:645-722: one DG node with its totals computed.  The usage of
\* the IS nodes is written back (line 686); unassigned_usage is summed but
\* never stored (lines 691, 698), so unassigned_entities is left as it is.
DGWithTotals(node) ==
    LET iss == node.information_systems
        un == node.unassigned_entities.entities
        dg_totals ==
            [m \in usage_types |->
                SumSeq([i \in 1..Len(iss) |-> BucketsUsage(iss[i].entities, m)])
                    + BucketsUsage(un, m)]
        dg_entity_totals ==
            [t \in EntityTypeSet |->
                SumSeq([i \in 1..Len(iss) |-> Len(iss[i].entities[t])]) + Len(un[t])]
        dg_managed_hosts ==
            SumSeq([i \in 1..Len(iss) |-> ManagedCount(iss[i].entities["hosts"])])
                + ManagedCount(un["hosts"])
    IN  [node EXCEPT
            !.information_systems = [i \in 1..Len(iss) |-> [iss[i] EXCEPT !.usage = is_totals(iss[i])]],
            !.totals = [usage |-> dg_totals, entities |-> dg_entity_totals,
                        managed_hosts |-> dg_managed_hosts]]

\* Mutant of SumTotals: the 'Unassigned' node is added to report.totals too.
SumTotals_mixed(dgs, unassigned) ==
    LET sel(i) == unassigned => dgs[i].name = UnassignedName
    IN  [usage |-> [m \in usage_types |->
                        SumSeq([i \in 1..Len(dgs) |->
                                    IF sel(i) THEN dgs[i].totals.usage[m] ELSE 0])],
         entities |-> [t \in EntityTypeSet |->
                        SumSeq([i \in 1..Len(dgs) |->
                                    IF sel(i) THEN dgs[i].totals.entities[t] ELSE 0])],
         managed_hosts |-> SumSeq([i \in 1..Len(dgs) |->
                                    IF sel(i) THEN dgs[i].totals.managed_hosts ELSE 0])]

\* chargeback.py:724-736: the totals of the DG nodes selected by unassigned
\* (the node named 'Unassigned') or not, added up.
SumTotals(dgs, unassigned) ==
    LET sel(i) == (dgs[i].name = UnassignedName) = unassigned
    IN  [usage |-> [m \in usage_types |->
                        SumSeq([i \in 1..Len(dgs) |->
                                    IF sel(i) THEN dgs[i].totals.usage[m] ELSE 0])],
         entities |-> [t \in EntityTypeSet |->
                        SumSeq([i \in 1..Len(dgs) |->
                                    IF sel(i) THEN dgs[i].totals.entities[t] ELSE 0])],
         managed_hosts |-> SumSeq([i \in 1..Len(dgs) |->
                                    IF sel(i) THEN dgs[i].totals.managed_hosts ELSE 0])]

\* chargeback.py:623-738
_calculate_totals(rep) ==
    LET dgs == [i \in 1..Len(rep.dgs) |-> DGWithTotals(rep.dgs[i])]
    IN  [dgs |-> dgs,
         totals |-> SumTotals(dgs, FALSE),
         unassigned_totals |-> SumTotals(dgs, TRUE)]

\* ------------------------------------------------------ unassigned entities
\* chargeback.py:236-257: the unassigned usage collection, usage type by
\* usage type in the order of usage_collectors, each with its records.  Two
\* identities the database does not know, one of them with usage of two
\* types, and the first entity of the database, which the unassigned queries
\* return when it lost its DG tag after the topology was read.
UnassignedDatas(topo) ==
    LET also(t) == IF topo["e1"].kind = t THEN << [dt_id |-> "e1", value |-> 11] >> ELSE <<>>
    IN  { << [usage_type |-> "fullstack",
              items |-> << [dt_id |-> "u1", value |-> 40] >> \o also("hosts")],
             [usage_type |-> "infra", items |-> << [dt_id |-> "u1", value |-> 9] >>],
             [usage_type |-> "rum",
              items |-> << [dt_id |-> "u2", value |-> 5] >> \o also("applications")],
             [usage_type |-> "rum_with_sr", items |-> << [dt_id |-> "u2", value |-> 3] >>],
             [usage_type |-> "browser_monitor", items |-> also("synthetics")] >> }

\* chargeback.py:126-143
unassigned_dg ==
    [name |-> UnassignedName,
     information_systems |-> <<>>,
     unassigned_entities |-> [entities |-> EmptyBuckets],
     totals |-> ZeroTotals]

\* Mutant of AddUnassigned: the processed_entities check is left out.
RECURSIVE AddUnassigned_unchecked(_, _, _)
AddUnassigned_unchecked(st, usage_type, items) ==
    IF items = <<>> THEN st
    ELSE LET it == Head(items)
             t == _determine_entity_type(usage_type)
             entity_data == [dt_id |-> it.dt_id,
                             usage |-> [m \in {usage_type} |-> it.value * Scale],
                             tagged_dgs |-> <<>>,
                             billed |-> TRUE]
             next == << [st[1] EXCEPT !.unassigned_entities.entities[t] = Append(@, entity_data)],
                        st[2] \cup {it.dt_id} >>
         IN  AddUnassigned_unchecked(next, usage_type, Tail(items))

\* chargeback.py:152-168: the records of one usage type; st is the pair
\* <<Unassigned node, processed_entities>>.
RECURSIVE AddUnassigned(_, _, _)
AddUnassigned(st, usage_type, items) ==
    IF items = <<>> THEN st
    ELSE LET it == Head(items)
             t == _determine_entity_type(usage_type)
             entity_data == [dt_id |-> it.dt_id,
                             usage |-> [m \in {usage_type} |-> it.value * Scale],
                             tagged_dgs |-> <<>>,
                             billed |-> TRUE]
             next == IF it.dt_id \in st[2] THEN st
                     ELSE << [st[1] EXCEPT !.unassigned_entities.entities[t] = Append(@, entity_data)],
                             st[2] \cup {it.dt_id} >>
         IN  AddUnassigned(next, usage_type, Tail(items))

\* chargeback.py:148-168: the loop over the usage types.
RECURSIVE AddAllUnassigned(_, _)
AddAllUnassigned(st, data) ==
    IF data = <<>> THEN st
    ELSE AddAllUnassigned(AddUnassigned(st, Head(data).usage_type, Head(data).items), Tail(data))

\* ---------------------------------------------------------------- actions
\* The dg_names lists handed to generate_report.
Requests == {<<>>} \cup DistinctSeqs(ReqNames, MaxRequested)

\* getattr(dg, entity_type) for each entity type in turn (chargeback.py:
\* 106-111): the entities of a DG, hosts first.
EntitiesOfType(dg, t) ==
    SelectSeq(res_order, LAMBDA id : /\ id \in DOMAIN resources
                                    /\ resources[id].kind = t
                                    /\ dg \in Range(resources[id].dgs))

EntitiesOf(dg) ==
    EntitiesOfType(dg, "hosts") \o EntitiesOfType(dg, "applications")
        \o EntitiesOfType(dg, "synthetics")

NoCall == [id |-> "", charged |-> <<>>, placed |-> <<>>, skipped |-> FALSE]

\* No usage collector is running.
NoCollector ==
    [usage_type |-> "", pc |-> "off", i |-> 0, task_queue |-> <<>>, submitted |-> <<>>,
     futures |-> {}, pending |-> {}, failed |-> {}, results |-> <<>>]

\* Host.dt_id of the hosts the topology refresh reads (topology.py:232).
HostIds == {"h1", "h2"}

\* No Host row of that dt_id (topology.py:241: existing_host is None).
NoHostRow == [present |-> FALSE, managed |-> FALSE, dgs |-> {}, information_systems |-> {}]

\* No host refreshed yet and no report requested over HTTP.
NoRefresh == [dt_id |-> "", managed |-> FALSE, host_is |-> {}]

ServicesIdle ==
    /\ is_rows = [is \in AllIS |-> FALSE]
    /\ host_rows = [h \in HostIds |-> NoHostRow]
    /\ refreshed = NoRefresh
    /\ report_status = "idle"
    /\ background_tasks = <<>>
    /\ responses = <<>>

Init ==
    /\ resources \in Topologies
    /\ managed_is \in ManagedSets(resources)
    /\ usage_data \in UsageDatas(resources)
    /\ include_non_charged_entities_in_dg \in BOOLEAN
    /\ process_unassigned \in BOOLEAN
    /\ processed_entities = {}
    /\ dg_names = <<>>
    /\ report = EmptyReport
    /\ pc = "idle"
    /\ di = 0
    /\ ei = 0
    /\ last = NoCall
    /\ calls = [id \in ResIds |-> 0]
    /\ res_order = ResOrder
    /\ run = 1
    /\ first = EmptyReport
    /\ collector = NoCollector
    /\ ServicesIdle

\* What only a later invocation or a usage collector changes.
History == <<res_order, run, first, collector, Services>>

Topology == <<resources, managed_is, usage_data, include_non_charged_entities_in_dg,
              process_unassigned>>

\* The position after the DG at index d is finished (chargeback.py:93, 120).
AfterDG(d) ==
    /\ di' = d + 1
    /\ ei' = 0
    /\ pc' = IF d + 1 <= Len(dg_names) THEN "dg"
             ELSE IF process_unassigned THEN "unassigned" ELSE "totals"

\* chargeback.py:60-90: the request is sorted and the report initialised.
GenerateReport ==
    /\ pc = "idle"
    /\ \E names \in Requests :
          dg_names' = <<priority_dg>> \o SelectSeq(names, LAMBDA d : d # priority_dg)
    /\ report' = EmptyReport
    /\ pc' = "dg"
    /\ di' = 1
    /\ ei' = 0
    /\ UNCHANGED <<Topology, History, processed_entities, last, calls>>

\* Mutant of DGNotFound: the loop over the DG names ends at the unknown name.
DGNotFound_abort ==
    /\ pc = "dg"
    /\ dg_names[di] \notin DGNames
    /\ AfterDG(Len(dg_names))
    /\ UNCHANGED <<Topology, History, processed_entities, dg_names, report, last, calls>>

\* chargeback.py:95-98: no DG row of that name.
DGNotFound ==
    /\ pc = "dg"
    /\ dg_names[di] \notin DGNames
    /\ AfterDG(di)
    /\ UNCHANGED <<Topology, History, processed_entities, dg_names, report, last, calls>>

\* chargeback.py:100-109: the DG's node is created if missing.
EnterDG ==
    /\ pc = "dg"
    /\ dg_names[di] \in DGNames
    /\ report' = [report EXCEPT !.dgs = EnsureDGs(@, <<dg_names[di]>>)]
    /\ IF EntitiesOf(dg_names[di]) = <<>>
       THEN AfterDG(di)
       ELSE pc' = "entities" /\ ei' = 1 /\ di' = di
    /\ UNCHANGED <<Topology, History, processed_entities, dg_names, last, calls>>

\* The position after the entity at index ei of the current DG.
AfterEntity ==
    IF ei < Len(EntitiesOf(dg_names[di]))
    THEN pc' = "entities" /\ ei' = ei + 1 /\ di' = di
    ELSE AfterDG(di)

Current == EntitiesOf(dg_names[di])[ei]

\* What a processor call on entity id computes, recorded for the claims.
CallRecord(id, charged) ==
    [id |-> id,
     charged |-> charged,
     placed |-> processed_dgs(resources[id], charged),
     skipped |-> resources[id].kind # "hosts" /\ id \in processed_entities]

\* chargeback.py:115-116 with _process_host (306-405).
ProcessHost ==
    /\ pc = "entities"
    /\ resources[Current].kind = "hosts"
    /\ report' = [report EXCEPT !.dgs = _process_host(@, Current)]
    /\ processed_entities' = processed_entities \cup {Current}
    /\ last' = CallRecord(Current, host_charged_dgs(resources[Current]))
    /\ calls' = [calls EXCEPT ![Current] = @ + 1]
    /\ AfterEntity
    /\ UNCHANGED <<Topology, History, dg_names>>

\* chargeback.py:115-116 with _process_application (407-511).
ProcessApplication ==
    /\ pc = "entities"
    /\ resources[Current].kind = "applications"
    /\ report' = [report EXCEPT !.dgs = _process_application(@, Current)]
    /\ processed_entities' = processed_entities \cup {Current}
    /\ last' = CallRecord(Current, other_charged_dgs(resources[Current]))
    /\ calls' = [calls EXCEPT ![Current] = @ + 1]
    /\ AfterEntity
    /\ UNCHANGED <<Topology, History, dg_names>>

\* chargeback.py:115-116 with _process_synthetic (513-621).
ProcessSynthetic ==
    /\ pc = "entities"
    /\ resources[Current].kind = "synthetics"
    /\ report' = [report EXCEPT !.dgs = _process_synthetic(@, Current)]
    /\ processed_entities' = processed_entities \cup {Current}
    /\ last' = CallRecord(Current, other_charged_dgs(resources[Current]))
    /\ calls' = [calls EXCEPT ![Current] = @ + 1]
    /\ AfterEntity
    /\ UNCHANGED <<Topology, History, dg_names>>

\* chargeback.py:120-172: the Unassigned node is built and appended.
ProcessUnassigned ==
    /\ pc = "unassigned"
    /\ \E data \in UnassignedDatas(resources) :
          LET st == AddAllUnassigned(<<unassigned_dg, processed_entities>>, data)
          IN  /\ report' = [report EXCEPT !.dgs = Append(@, st[1])]
              /\ processed_entities' = st[2]
    /\ pc' = "totals"
    /\ UNCHANGED <<Topology, History, dg_names, di, ei, last, calls>>

\* chargeback.py:176
CalculateTotals ==
    /\ pc = "totals"
    /\ report' = _calculate_totals(report)
    /\ pc' = "filter"
    /\ UNCHANGED <<Topology, History, processed_entities, dg_names, di, ei, last, calls>>

\* Mutant of returned_dgs: the DG list is returned unfiltered.
returned_dgs_all(dgs) == dgs

\* chargeback.py:182: the DG list the caller gets.
returned_dgs(dgs) ==
    SelectSeq(dgs, LAMBDA dg : \/ dg.name \in Range(dg_names)
                               \/ (process_unassigned /\ dg.name = UnassignedName))

\* chargeback.py:181-183
ReturnReport ==
    /\ pc = "filter"
    /\ report' = [report EXCEPT !.dgs = returned_dgs(@)]
    /\ pc' = "done"
    /\ UNCHANGED <<Topology, History, processed_entities, dg_names, di, ei, last, calls>>

Next ==
    \/ GenerateReport
    \/ DGNotFound
    \/ EnterDG
    \/ ProcessHost
    \/ ProcessApplication
    \/ ProcessSynthetic
    \/ ProcessUnassigned
    \/ CalculateTotals
    \/ ReturnReport

Spec == Init /\ [][Next]_vars

\* ------------------------------------------------------ later invocations
Reverse(s) == [i \in 1..Len(s) |-> s[Len(s) + 1 - i]]

\* The start of a second generate_report (chargeback.py:60-90) on the report
\* the first one returned.
SecondRun ==
    /\ pc = "done"
    /\ run = 1
    /\ run' = 2
    /\ first' = report
    /\ report' = EmptyReport
    /\ pc' = "dg"
    /\ di' = 1
    /\ ei' = 0
    /\ last' = NoCall
    /\ calls' = [id \in ResIds |-> 0]

\* A new ChargebackReport of the same configuration (chargeback.py:18-46) is
\* handed the same DG names in another order, or the database yields the
\* entities in another order, or both.
GenerateReordered ==
    /\ SecondRun
    /\ \E flip_dgs, flip_res \in BOOLEAN :
          /\ flip_dgs \/ flip_res
          /\ dg_names' = <<priority_dg>>
                            \o (IF flip_dgs THEN Reverse(Tail(dg_names)) ELSE Tail(dg_names))
          /\ res_order' = IF flip_res THEN Reverse(res_order) ELSE res_order
    /\ processed_entities' = {}
    /\ UNCHANGED <<Topology, collector, Services>>

\* generate_report is called again on the same ChargebackReport with the same
\* DG names: processed_entities, set in __init__ only (chargeback.py:38), is
\* what the first invocation left.
GenerateAgain ==
    /\ SecondRun
    /\ dg_names' = <<priority_dg>> \o SelectSeq(dg_names, LAMBDA d : d # priority_dg)
    /\ UNCHANGED <<Topology, processed_entities, res_order, collector, Services>>

\* The two-invocation specifications start with usage of every type for the
\* first entity.
InitSecond ==
    /\ Init
    /\ \A m \in MetricsOf(resources["e1"].kind) : usage_data[m]["e1"] > 0

NextReordered == Next \/ GenerateReordered

SpecReordered == InitSecond /\ [][NextReordered]_vars

NextAgain == Next \/ GenerateAgain

SpecAgain == InitSecond /\ [][NextAgain]_vars

\* --------------------------------------------------------- usage collectors
\* retrieve_hosts_fullstack_usage and its six siblings (usage.py:34-333) are
\* the same code but for the query functions they submit.  The collector of
\* usage type u submits initial_query(u) in its initial batch and
\* refill_query(u) when a worker is free again.
initial_query(usage_type) == usage_type

\* usage.py:70, 157, 200, 243, 286, 329 submit the collector's own query;
\* usage.py:114, in retrieve_hosts_infra_usage, submits
\* query_host_full_stack_usage.
refill_query(usage_type) == IF usage_type = "infra" THEN "fullstack" ELSE usage_type

\* What the query of usage type q returns for the DG tag dg
\* (dynatrace.py:225-370): one datapoint per entity of that tag and of the
\* entity type of q.
QueryResult(q, dg) ==
    LET ids == SelectSeq(ResOrder, LAMBDA id :
                    /\ resources[id].kind = _determine_entity_type(q)
                    /\ dg \in Range(resources[id].dgs))
    IN  [k \in 1..Len(ids) |-> [dt_id |-> ids[k], value |-> RawOf(ids[k], q)]]

\* usage.py:34-40: the collector of usage type u starts on the DG names.
StartCollector(u, dgs) ==
    [NoCollector EXCEPT !.usage_type = u, !.pc = "batch", !.task_queue = dgs]

\* task_queue.get() and executor.submit(query, dg, ...) (usage.py:50-53,
\* 69-72); a future is known by its place in the list of submitted queries.
Submit(c, q) ==
    [c EXCEPT !.task_queue = Tail(@),
              !.submitted = Append(@, [dg |-> Head(c.task_queue), query |-> q]),
              !.futures = @ \cup {Len(c.submitted) + 1}]

\* Mutant of on_exception: the exception of the query leaves the collector.
on_exception_raise(c) == [c EXCEPT !.pc = "raised"]

\* usage.py:65-66: the exception of a query is logged.
on_exception(c) == c

\* usage.py:59-72: one pass of the loop over as_completed(futures) for the
\* future f, whose result() returns (ok) or raises.
Collected(c, f, ok) ==
    LET removed == [c EXCEPT !.futures = @ \ {f}, !.pending = @ \ {f}]
        tried == IF ok
                 THEN [removed EXCEPT !.results =
                          @ \o QueryResult(c.submitted[f].query, c.submitted[f].dg)]
                 ELSE on_exception([removed EXCEPT !.failed = @ \cup {f}])
        refilled == IF tried.pc # "raised" /\ tried.task_queue # <<>>
                    THEN Submit(tried, refill_query(c.usage_type)) ELSE tried
    IN  IF refilled.pc = "raised" THEN refilled
        ELSE [refilled EXCEPT !.pc = IF refilled.pending = {} THEN "while" ELSE "for"]

\* The engine's variables while a collector runs.
Engine ==
    <<resources, managed_is, include_non_charged_entities_in_dg, process_unassigned,
      processed_entities, dg_names, report, di, ei, last, calls, res_order, run, first,
      Services>>

\* Mutant of BatchSubmit: the initial batch is not limited to the pool size.
BatchSubmit_unbounded ==
    /\ collector.pc = "batch"
    /\ collector.task_queue # <<>>
    /\ collector' = [Submit(collector, initial_query(collector.usage_type)) EXCEPT
                        !.i = IF @ < DT_QUERIES_THREADS THEN @ + 1 ELSE @]
    /\ UNCHANGED <<Engine, usage_data, pc>>

\* usage.py:48-53: one pass of the initial batch with a DG left in the queue.
BatchSubmit ==
    /\ collector.pc = "batch"
    /\ collector.i < DT_QUERIES_THREADS
    /\ collector.task_queue # <<>>
    /\ collector' = [Submit(collector, initial_query(collector.usage_type)) EXCEPT !.i = @ + 1]
    /\ UNCHANGED <<Engine, usage_data, pc>>

\* usage.py:48-49: the passes of the initial batch left do nothing.
BatchEnd ==
    /\ collector.pc = "batch"
    /\ collector.i = DT_QUERIES_THREADS \/ collector.task_queue = <<>>
    /\ collector' = [collector EXCEPT !.pc = "while"]
    /\ UNCHANGED <<Engine, usage_data, pc>>

\* usage.py:56-57: as_completed takes the futures there are.
AsCompleted ==
    /\ collector.pc = "while"
    /\ collector.futures # {}
    /\ collector' = [collector EXCEPT !.pending = collector.futures, !.pc = "for"]
    /\ UNCHANGED <<Engine, usage_data, pc>>

\* usage.py:57-63, 68-72: a query completes with a result.
CollectResult ==
    /\ collector.pc = "for"
    /\ \E f \in collector.pending : collector' = Collected(collector, f, TRUE)
    /\ UNCHANGED <<Engine, usage_data, pc>>

\* usage.py:57-61, 65-72: a query completes with an exception.
CollectException ==
    /\ collector.pc = "for"
    /\ \E f \in collector.pending : collector' = Collected(collector, f, FALSE)
    /\ UNCHANGED <<Engine, usage_data, pc>>

\* usage.py:56, 75: no future is left, the results are returned.
ReturnResults ==
    /\ collector.pc = "while"
    /\ collector.futures = {}
    /\ collector' = [collector EXCEPT !.pc = "returned"]
    /\ UNCHANGED <<Engine, usage_data, pc>>

\* {item['dt_id']: item['value'] for item in data} (chargeback.py:221), read
\* with .get(dt_id, 0.0): the value of the last item of the identity, 0.0 if
\* there is none.
UsageMap(data) ==
    [id \in ResIds |->
        LET at == {k \in 1..Len(data) : data[k].dt_id = id}
        IN  IF at = {} THEN 0
            ELSE data[CHOOSE k \in at : \A j \in at : j <= k].value]

\* chargeback.py:220-221, 74-90: the results become the usage map of the
\* usage type, and generate_report goes on to the DG loop.
BuildUsageMap ==
    /\ pc = "collect"
    /\ collector.pc = "returned"
    /\ usage_data' = [usage_data EXCEPT ![collector.usage_type] = UsageMap(collector.results)]
    /\ collector' = [collector EXCEPT !.pc = "mapped"]
    /\ pc' = "dg"
    /\ di' = 1
    /\ ei' = 0
    /\ UNCHANGED <<resources, managed_is, include_non_charged_entities_in_dg,
                   process_unassigned, processed_entities, dg_names, report, last, calls,
                   res_order, run, first, Services>>

\* generate_report with one of the two host collectors running on a database
\* of hosts outside any IS: the usage of the other usage types is collected,
\* the usage of the collector's usage type is not yet.
InitCollect ==
    /\ resources \in {t \in Topologies : /\ t["e1"].kind = "hosts"
                                         /\ t["e1"].iss = {}
                                         /\ t["e1"].monitoring_mode # "NONE"}
    /\ managed_is = {}
    /\ \E u \in MetricsOf("hosts") : \E data \in UsageDatas(resources) :
          \E names \in Requests :
              /\ dg_names = <<priority_dg>> \o SelectSeq(names, LAMBDA d : d # priority_dg)
              /\ usage_data = [data EXCEPT ![u] = [id \in ResIds |-> 0]]
              /\ collector = StartCollector(u, dg_names)
    /\ include_non_charged_entities_in_dg \in BOOLEAN
    /\ process_unassigned = FALSE
    /\ processed_entities = {}
    /\ report = EmptyReport
    /\ pc = "collect"
    /\ di = 0
    /\ ei = 0
    /\ last = NoCall
    /\ calls = [id \in ResIds |-> 0]
    /\ res_order = ResOrder
    /\ run = 1
    /\ first = EmptyReport
    /\ ServicesIdle

NextCollect ==
    \/ BatchSubmit
    \/ BatchEnd
    \/ AsCompleted
    \/ CollectResult
    \/ CollectException
    \/ ReturnResults
    \/ BuildUsageMap
    \/ DGNotFound
    \/ EnterDG
    \/ ProcessHost
    \/ CalculateTotals
    \/ ReturnReport

SpecCollect == InitCollect /\ [][NextCollect]_vars

\* -------------------------------------------------------- topology refresh
\* The CONTEXTLESS tags a host of the Dynatrace API may carry
\* (topology.py:253-270): a DG tag, ENV tags "dg--is" of a known DG and IS, of
\* an unknown DG and of an unknown IS, and a tag of managed_host_tags.txt.
TagPool ==
    { [key |-> "DG", dg |-> "Alpha", is |-> ""],
      [key |-> "ENV", dg |-> "Alpha", is |-> "IS1"],
      [key |-> "ENV", dg |-> "Beta", is |-> "IS1"],
      [key |-> "ENV", dg |-> "Ghost", is |-> "IS1"],
      [key |-> "ENV", dg |-> "Alpha", is |-> "IS9"],
      [key |-> "MANAGED", dg |-> "", is |-> ""] }

\* chargeback_logic.py:26-45, 83-87: a tag of managed_host_tags.txt is among
\* the tags.
host_is_managed(tags) == \E t \in tags : t.key = "MANAGED"

\* topology.py:257-267: the DG rows the tags name.
host_dgs(tags) == {t.dg : t \in {x \in tags : x.key \in {"DG", "ENV"} /\ x.dg \in DGNames}}

\* topology.py:262-270: the IS rows the ENV tags name.
host_is(tags) ==
    {is \in AllIS : \E t \in tags : t.key = "ENV" /\ t.dg = is.dg /\ t.is = is.name}

\* topology.py:220-277: update_host on the data of one host.
update_host ==
    \E dt_id \in HostIds : \E tags \in SUBSET TagPool :
        /\ host_rows' = [host_rows EXCEPT ![dt_id] =
                            [present |-> TRUE,
                             managed |-> host_is_managed(tags),
                             dgs |-> host_dgs(tags),
                             information_systems |-> host_is(tags)]]
        /\ is_rows' = [is \in AllIS |-> IF is \in host_is(tags) THEN TRUE ELSE is_rows[is]]
        /\ refreshed' = [dt_id |-> dt_id, managed |-> host_is_managed(tags),
                         host_is |-> host_is(tags)]
        /\ UNCHANGED <<Topology, processed_entities, dg_names, report, pc, di, ei, last,
                       calls, res_order, run, first, collector,
                       report_status, background_tasks, responses>>

\* The report engine at rest, on some database.
EngineIdle ==
    /\ resources = CHOOSE t \in Topologies : TRUE
    /\ managed_is = {}
    /\ usage_data = CHOOSE d \in UsageDatas(resources) : TRUE
    /\ include_non_charged_entities_in_dg = FALSE
    /\ process_unassigned = FALSE
    /\ processed_entities = {}
    /\ dg_names = <<>>
    /\ report = EmptyReport
    /\ pc = "idle"
    /\ di = 0
    /\ ei = 0
    /\ last = NoCall
    /\ calls = [id \in ResIds |-> 0]
    /\ res_order = ResOrder
    /\ run = 1
    /\ first = EmptyReport
    /\ collector = NoCollector

\* The IS rows as update_dg created them, managed by their name
\* (topology.py:203-206; every IS of the database has the same name), and no
\* Host row yet.
InitTopology ==
    /\ EngineIdle
    /\ \E m \in BOOLEAN : is_rows = [is \in AllIS |-> m]
    /\ host_rows = [h \in HostIds |-> NoHostRow]
    /\ refreshed = NoRefresh
    /\ report_status = "idle"
    /\ background_tasks = <<>>
    /\ responses = <<>>

NextTopology == update_host

SpecTopology == InitTopology /\ [][NextTopology]_vars

\* ------------------------------------------------------------ HTTP routes
\* The dg_ids of a POST /generate request against the DG table
\* (app/routes/chargeback.py:130-144): every id found, none found, some
\* missing.
RequestKinds == {"known", "unknown", "partly"}

\* The tasks that were accepted and have not finished.
InProgress == {t \in 1..Len(background_tasks) : background_tasks[t].pc # "finished"}

\* app/routes/chargeback.py:123-159: the status code of the answer.
status_code(req) ==
    IF report_status = "processing" THEN 400
    ELSE IF req = "unknown" THEN 404
    ELSE IF req = "partly" THEN 404
    ELSE 200

\* app/routes/chargeback.py:110-168: POST /generate.  The handler has no
\* suspension point; the task it adds starts after the answer is sent.
start_report_generation ==
    /\ Len(responses) < MaxPosts
    /\ \E req \in RequestKinds :
          /\ responses' = Append(responses, [status_code |-> status_code(req),
                                             in_progress |-> Cardinality(InProgress)])
          /\ background_tasks' =
                IF status_code(req) = 200
                THEN Append(background_tasks, [pc |-> "queued", status |-> "", outcome |-> ""])
                ELSE background_tasks
    /\ UNCHANGED <<Topology, processed_entities, dg_names, report, pc, di, ei, last,
                   calls, res_order, run, first, collector,
                   is_rows, host_rows, refreshed, report_status>>

\* Mutant of status_on_error: the handlers leave report_status as it is.
status_on_error_unset == report_status

\* app/routes/chargeback.py:96, 106
status_on_error == "error"

\* app/routes/chargeback.py:87
status_on_success == "idle"

\* app/routes/chargeback.py:89-108: the except blocks and the end of the task.
on_error(task, why) == [task EXCEPT !.pc = "finished", !.status = "error", !.outcome = why]

\* What is left unchanged while a background task runs.
OutsideRoutes ==
    <<Topology, processed_entities, dg_names, report, pc, di, ei, last, calls, res_order,
      run, first, collector, is_rows, host_rows, refreshed, responses>>

\* app/routes/chargeback.py:42-79: the task from its start to its only
\* suspension point, asyncio.sleep(0); the service's generate_report awaits
\* nothing that suspends (app/services/chargeback.py:36-111).  The DG lookup
\* finds no row or raises (lines 64-66), generate_report raises (line 78), or
\* the report is generated.
BackgroundRun ==
    \E t \in 1..Len(background_tasks) :
        /\ background_tasks[t].pc = "queued"
        /\ \E outcome \in {"ok", "lookup", "generate"} :
              IF outcome = "ok"
              THEN /\ report_status' = "processing"
                   /\ background_tasks' = [background_tasks EXCEPT
                            ![t] = [pc |-> "sleep", status |-> "processing", outcome |-> "ok"]]
              ELSE /\ report_status' = status_on_error
                   /\ background_tasks' = [background_tasks EXCEPT ![t] = on_error(@, outcome)]
        /\ UNCHANGED OutsideRoutes

\* app/routes/chargeback.py:81-87, 107-108: the result is saved.
BackgroundSave ==
    \E t \in 1..Len(background_tasks) :
        /\ background_tasks[t].pc = "sleep"
        /\ background_tasks' = [background_tasks EXCEPT
                                    ![t] = [@ EXCEPT !.pc = "finished", !.status = "completed"]]
        /\ report_status' = status_on_success
        /\ UNCHANGED OutsideRoutes

InitRoutes ==
    /\ EngineIdle
    /\ ServicesIdle

NextRoutes ==
    \/ start_report_generation
    \/ BackgroundRun
    \/ BackgroundSave

SpecRoutes == InitRoutes /\ [][NextRoutes]_vars

\* ------------------------------------------- the engine of the HTTP API
\* app/services/chargeback.py:213-221: the DGs a host is placed in and
\* charged to.
service_processed_dgs(row) ==
    IF priority_dg \in Range(row.dgs) THEN <<priority_dg>>
    ELSE IF "DIGIT" \in Range(row.dgs) THEN <<"DIGIT">>
    ELSE row.dgs

\* app/services/chargeback.py:174-190
service_create_is_report_structure(is) ==
    [name |-> is.name, entities |-> EmptyBuckets, usage |-> ZeroUsage, totals |-> ZeroTotals]

\* app/services/chargeback.py:231-243: the entry of a host, the same in every
\* DG it is placed in.
service_host_data(id, row, processed) ==
    [dt_id |-> id,
     usage |-> host_usage(id, Len(processed)),
     managed |-> row.managed,
     tagged_dgs |-> row.dgs]

\* app/services/chargeback.py:249-275: the entry is appended to the bucket of
\* the matching IS or to the DG's unassigned-in-unit bucket; no identity
\* check.
service_place(dgs, dg, row, entry) ==
    LET dg_index == IndexOfName(dgs, dg)
    IN  IF dg_index = 0 THEN dgs
        ELSE LET node == dgs[dg_index]
                 m == MatchingIS(dg, row)
             IN  IF m # 0
                 THEN LET is == ISOf(dg)[m]
                          found == IndexOfName(node.information_systems, is.name)
                          isnodes == IF found = 0
                                     THEN Append(node.information_systems,
                                                 service_create_is_report_structure(is))
                                     ELSE node.information_systems
                          is_index == IF found = 0 THEN Len(isnodes) ELSE found
                      IN  [dgs EXCEPT ![dg_index].information_systems =
                              [isnodes EXCEPT ![is_index].entities["hosts"] = Append(@, entry)]]
                 ELSE [dgs EXCEPT ![dg_index].unassigned_entities.entities["hosts"] =
                                        Append(@, entry)]

\* The loop of app/services/chargeback.py:246.
RECURSIVE service_place_all(_, _, _, _, _)
service_place_all(dgs, id, row, todo, processed) ==
    IF todo = <<>> THEN dgs
    ELSE service_place_all(
             service_place(dgs, Head(todo), row, service_host_data(id, row, processed)),
             id, row, Tail(todo), processed)

\* app/services/chargeback.py:192-275: the DG list of the report after
\* _process_host.
service_process_host(dgs, id) ==
    LET row == resources[id]
        processed == service_processed_dgs(row)
    IN  service_place_all(EnsureDGs(dgs, processed), id, row, processed, processed)

\* The usage of type m of all entries of a bucket, billed or not
\* (app/services/chargeback.py:447-469, 479-503).
service_usage(bucket, m) ==
    SumSeq([i \in 1..Len(bucket) |->
                IF m \in DOMAIN bucket[i].usage THEN bucket[i].usage[m] ELSE 0])

service_buckets_usage(entities, m) ==
    service_usage(entities["hosts"], m) + service_usage(entities["applications"], m)
        + service_usage(entities["synthetics"], m)

\* app/services/chargeback.py:437-508: one DG node with its totals and the
\* totals of its IS nodes.
service_dg_with_totals(node) ==
    LET iss == node.information_systems
        un == node.unassigned_entities.entities
    IN  [node EXCEPT
            !.information_systems =
                [i \in 1..Len(iss) |->
                    [iss[i] EXCEPT
                        !.totals.usage = [m \in usage_types |->
                                            service_buckets_usage(iss[i].entities, m)],
                        !.totals.entities = [t \in EntityTypeSet |-> Len(iss[i].entities[t])]]],
            !.totals =
                [usage |-> [m \in usage_types |->
                                SumSeq([i \in 1..Len(iss) |->
                                            service_buckets_usage(iss[i].entities, m)])
                                    + service_buckets_usage(un, m)],
                 entities |-> [t \in EntityTypeSet |->
                                SumSeq([i \in 1..Len(iss) |-> Len(iss[i].entities[t])])
                                    + Len(un[t])],
                 managed_hosts |->
                    SumSeq([i \in 1..Len(iss) |-> ManagedCount(iss[i].entities["hosts"])])
                        + ManagedCount(un["hosts"])]]

\* app/services/chargeback.py:429-517: the totals of every DG node, added up
\* into the report totals.
service_calculate_totals(rep) ==
    LET dgs == [i \in 1..Len(rep.dgs) |-> service_dg_with_totals(rep.dgs[i])]
    IN  [rep EXCEPT
            !.dgs = dgs,
            !.totals =
                [usage |-> [m \in usage_types |->
                                SumSeq([i \in 1..Len(dgs) |-> dgs[i].totals.usage[m]])],
                 entities |-> [t \in EntityTypeSet |->
                                SumSeq([i \in 1..Len(dgs) |-> dgs[i].totals.entities[t]])],
                 managed_hosts |-> SumSeq([i \in 1..Len(dgs) |-> dgs[i].totals.managed_hosts])]]

\* app/services/chargeback.py:36-62: the DG names are taken in the caller's
\* order; the route hands over at least one (app/routes/chargeback.py:64-68).
ServiceGenerateReport ==
    /\ pc = "idle"
    /\ \E names \in Requests : names # <<>> /\ dg_names' = names
    /\ report' = EmptyReport
    /\ pc' = "dg"
    /\ di' = 1
    /\ ei' = 0
    /\ UNCHANGED <<Topology, History, processed_entities, last, calls>>

\* app/services/chargeback.py:75-83 with _process_host (192-275).
ServiceProcessHost ==
    /\ pc = "entities"
    /\ resources[Current].kind = "hosts"
    /\ report' = [report EXCEPT !.dgs = service_process_host(@, Current)]
    /\ last' = [id |-> Current,
                charged |-> service_processed_dgs(resources[Current]),
                placed |-> service_processed_dgs(resources[Current]),
                skipped |-> FALSE]
    /\ calls' = [calls EXCEPT ![Current] = @ + 1]
    /\ AfterEntity
    /\ UNCHANGED <<Topology, History, processed_entities, dg_names>>

\* app/services/chargeback.py:99-106: the totals are computed and the report
\* is returned as it is.
ServiceCalculateTotals ==
    /\ pc = "totals"
    /\ report' = service_calculate_totals(report)
    /\ pc' = "done"
    /\ UNCHANGED <<Topology, History, processed_entities, dg_names, di, ei, last, calls>>

\* A ChargebackReport of the route (app/routes/chargeback.py:72:
\* process_unassigned off) on a database of hosts.
InitService ==
    /\ Init
    /\ resources["e1"].kind = "hosts"
    /\ include_non_charged_entities_in_dg = FALSE
    /\ process_unassigned = FALSE

NextService ==
    \/ ServiceGenerateReport
    \/ DGNotFound
    \/ EnterDG
    \/ ServiceProcessHost
    \/ ServiceCalculateTotals

SpecService == InitService /\ [][NextService]_vars

\* ----------------------------------------------------- reading the tree
HasNode(name) == \E i \in 1..Len(report.dgs) : report.dgs[i].name = name

NodeNamed(name) == report.dgs[IndexOfName(report.dgs, name)]

\* The entries of entity type t anywhere in a DG node.
EntriesIn(node, t) ==
    UNION {Range(node.information_systems[i].entities[t]) :
                i \in 1..Len(node.information_systems)}
        \cup Range(node.unassigned_entities.entities[t])

\* The entries of entity id in the node of DG d.
EntriesOfIn(id, d) ==
    IF HasNode(d)
    THEN {e \in EntriesIn(NodeNamed(d), resources[id].kind) : e.dt_id = id}
    ELSE {}

\* The quantity of usage type m the node of DG d holds for entity id.
CreditedIn(id, d, m) ==
    IF EntriesOfIn(id, d) = {} THEN 0 ELSE (CHOOSE e \in EntriesOfIn(id, d) : TRUE).usage[m]

IsBillable(id) ==
    CASE resources[id].kind = "hosts" -> host_is_billable(resources[id])
      [] resources[id].kind = "applications" -> app_is_billable(resources[id])
      [] OTHER -> synthetic_is_billable(resources[id])

Raw(id, m) == usage_data[m][id]

\* The tree holds every entry placed so far: the DG list is not yet filtered.
TreeComplete == pc # "done"

\* A host's infra usage is dropped when it has fullstack usage
\* (chargeback.py:358).
Dropped(id, m) == resources[id].kind = "hosts" /\ m = "infra" /\ Raw(id, "fullstack") > 0

\* ------------------------------------------------------------------ claims
C1_Case(id) ==
    /\ calls[id] >= 1
    /\ TreeComplete
    /\ IsBillable(id)
    /\ priority_dg \notin Range(resources[id].dgs)

C1_Split(id, m) ==
    LET dgs == resources[id].dgs
    IN  /\ \A d \in Range(dgs) :
              /\ Cardinality(EntriesOfIn(id, d)) = 1
              /\ CreditedIn(id, d, m) = Div(Raw(id, m), Len(dgs))
        /\ SumSeq([i \in 1..Len(dgs) |-> CreditedIn(id, dgs[i], m)]) = Raw(id, m) * Scale

\* C1 as stated: a billable entity tagged to n >= 1 DGs, none of them
\* 'DIGIT C', has after its processor ran an entry in the node of each tagged
\* DG crediting raw/n for EVERY usage type with raw > 0, and the credited
\* amounts sum to the raw usage.
C1_Original ==
    \A id \in DOMAIN resources :
        C1_Case(id) =>
            \A m \in MetricsOf(resources[id].kind) : Raw(id, m) > 0 => C1_Split(id, m)

\* C1 amended: the same for every usage type with raw > 0 except a host's
\* infra usage when the host also has fullstack usage, which is credited
\* nowhere.
C1_SplitAcrossTaggedUnits ==
    \A id \in DOMAIN resources :
        C1_Case(id) =>
            \A m \in MetricsOf(resources[id].kind) :
                /\ (Raw(id, m) > 0 /\ ~ Dropped(id, m)) => C1_Split(id, m)
                /\ Dropped(id, m) => \A d \in Range(resources[id].dgs) : CreditedIn(id, d, m) = 0

\* C1 witness: a billable entity tagged to two DGs, neither 'DIGIT C', with
\* usage, has been processed and both nodes credit half of it.
C1_Witness ==
    \E id \in DOMAIN resources : \E m \in MetricsOf(resources[id].kind) :
        /\ C1_Case(id)
        /\ Len(resources[id].dgs) = 2
        /\ Raw(id, m) > 0
        /\ \A d \in Range(resources[id].dgs) : CreditedIn(id, d, m) * 2 = Raw(id, m) * Scale

C2_Case(id) ==
    /\ calls[id] >= 1
    /\ TreeComplete
    /\ priority_dg \in Range(resources[id].dgs)

\* The tagged DGs other than 'DIGIT C' get no billed usage for the entity:
\* every entry they hold for it is not billed or all zero.
C2_NothingElsewhere(id) ==
    \A d \in Range(resources[id].dgs) \ {priority_dg} :
        \A e \in EntriesOfIn(id, d) : e.billed => \A m \in DOMAIN e.usage : e.usage[m] = 0

C2_ChargedToFallback(id) ==
    (last.id = id /\ ~ last.skipped) => last.charged = <<priority_dg>>

\* C2 as stated: an entity tagged to 'DIGIT C' among others is charged to
\* 'DIGIT C' alone, its WHOLE raw usage is credited in the 'DIGIT C' node and
\* the other tagged DGs get zero billed usage, with the include flag on or off.
C2_Original ==
    \A id \in DOMAIN resources :
        C2_Case(id) =>
            /\ C2_ChargedToFallback(id)
            /\ Cardinality(EntriesOfIn(id, priority_dg)) = 1
            /\ \A m \in MetricsOf(resources[id].kind) :
                    CreditedIn(id, priority_dg, m) = Raw(id, m) * Scale
            /\ C2_NothingElsewhere(id)

\* C2 amended: the same, the raw usage credited in the 'DIGIT C' node being
\* every usage type but a host's infra usage when the host also has
\* fullstack usage, which is credited as 0.
C2_FallbackPrecedence ==
    \A id \in DOMAIN resources :
        C2_Case(id) =>
            /\ C2_ChargedToFallback(id)
            /\ Cardinality(EntriesOfIn(id, priority_dg)) = 1
            /\ \A m \in MetricsOf(resources[id].kind) :
                    CreditedIn(id, priority_dg, m) =
                        IF Dropped(id, m) THEN 0 ELSE Raw(id, m) * Scale
            /\ C2_NothingElsewhere(id)

\* C2 witness: an entity with usage tagged to 'DIGIT C' and another DG has
\* been processed with the include flag on, and the other DG holds a row.
C2_Witness ==
    \E id \in DOMAIN resources : \E m \in MetricsOf(resources[id].kind) :
        /\ C2_Case(id)
        /\ include_non_charged_entities_in_dg
        /\ Raw(id, m) > 0
        /\ CreditedIn(id, priority_dg, m) = Raw(id, m) * Scale
        /\ \E d \in Range(resources[id].dgs) \ {priority_dg} : EntriesOfIn(id, d) # {}

\* C3 as stated: the processor of an entity that is not billable computes
\* the charged DGs <<'DIGIT C'>>, whatever DGs the entity is tagged to.
C3_NonBillableChargedToFallback ==
    (last.id # "" /\ ~ last.skipped /\ ~ IsBillable(last.id)) => last.charged = <<priority_dg>>

\* An application whose only IS is a managed IS of a DG other than 'DIGIT C'.
C4_Case(id) ==
    /\ resources[id].kind = "applications"
    /\ Len(resources[id].dgs) = 1
    /\ resources[id].dgs[1] # priority_dg
    /\ resources[id].iss # {}
    /\ resources[id].iss \subseteq managed_is
    /\ calls[id] >= 1
    /\ TreeComplete

\* C4 as stated: such an application is not billed, adds nothing to the usage
\* totals of its DG and has an entry in the 'DIGIT C' node, which counts it
\* among its applications once the totals are computed.
C4_ManagedAppShownInFallback ==
    \A id \in DOMAIN resources :
        C4_Case(id) =>
            /\ \A d \in DGNames : \A e \in EntriesOfIn(id, d) : ~ e.billed
            /\ EntriesOfIn(id, priority_dg) # {}
            /\ pc = "filter" => NodeNamed(priority_dg).totals.entities["applications"] >= 1

\* Every bucket of the tree: those of the IS nodes and the unassigned-in-unit
\* ones, as <<DG index, IS index or 0, entity type, entries>>.
Buckets(dgs) ==
    {<<i, j, t, dgs[i].information_systems[j].entities[t]>> :
        <<i, j, t>> \in {x \in (1..Len(dgs)) \X (1..Cardinality(AllIS)) \X EntityTypeSet :
                            x[2] <= Len(dgs[x[1]].information_systems)}}
    \cup {<<i, 0, t, dgs[i].unassigned_entities.entities[t]>> :
            <<i, t>> \in (1..Len(dgs)) \X EntityTypeSet}

\* A step that is a processor call on entity id.
CallOn(id) == calls'[id] = calls[id] + 1

\* C5: a processor call on an entity whose processor already ran in this
\* report leaves the DG list, hence every bucket, as it was, and the totals
\* computed from the tree after the call are those computed before it.
C5_SecondCallChangesNothing ==
    [][\A id \in DOMAIN resources :
            (calls[id] >= 1 /\ CallOn(id)) =>
                /\ report'.dgs = report.dgs
                /\ _calculate_totals(report') = _calculate_totals(report)]_vars

\* C5 witness: an entity with usage was processed twice and is in the tree.
C5_Witness ==
    \E id \in DOMAIN resources : \E m \in MetricsOf(resources[id].kind) :
        /\ calls[id] = 2
        /\ Raw(id, m) > 0
        /\ \E d \in DGNames : CreditedIn(id, d, m) > 0

\* C6: in every state no bucket of the tree, of an IS node or unassigned in
\* a DG, holds two entries of the same dt_id.
C6_NoDuplicateIdentity ==
    \A b \in Buckets(report.dgs) :
        \A i, j \in 1..Len(b[4]) : b[4][i].dt_id = b[4][j].dt_id => i = j

\* C6 witness: a bucket holds two entities, one of them processed twice.
C6_Witness ==
    \E b \in Buckets(report.dgs) :
        /\ Len(b[4]) = 2
        /\ \E i \in 1..2 : b[4][i].dt_id \in DOMAIN resources /\ calls[b[4][i].dt_id] = 2

\* The host entries of the DG nodes _process_host fills.
HostEntries ==
    UNION {EntriesIn(report.dgs[i], "hosts") :
              i \in {j \in 1..Len(report.dgs) : report.dgs[j].name # UnassignedName}}

TopologyHostEntries == {e \in HostEntries : e.dt_id \in DOMAIN resources}

\* C7 as stated: every entry of a FULL_STACK host has infra = 0 whatever its
\* raw usage, and every entry of an INFRASTRUCTURE host has fullstack = 0.
C7_Original ==
    \A e \in TopologyHostEntries :
        /\ resources[e.dt_id].monitoring_mode = "FULL_STACK" => e.usage["infra"] = 0
        /\ resources[e.dt_id].monitoring_mode = "INFRASTRUCTURE" => e.usage["fullstack"] = 0

\* C7 amended: every entry of a host with raw fullstack usage > 0 has
\* infra = 0, whatever its tier and its raw infra usage; its fullstack
\* quantity is 0 exactly if its raw fullstack usage is 0.
C7_FullstackUsageExcludesInfra ==
    \A e \in TopologyHostEntries :
        /\ Raw(e.dt_id, "fullstack") > 0 => e.usage["infra"] = 0
        /\ e.usage["fullstack"] = 0 <=> Raw(e.dt_id, "fullstack") = 0

\* C7 witness: a FULL_STACK host with raw fullstack and raw infra usage has
\* an entry.
C7_Witness ==
    \E e \in TopologyHostEntries :
        /\ resources[e.dt_id].monitoring_mode = "FULL_STACK"
        /\ Raw(e.dt_id, "fullstack") > 0
        /\ Raw(e.dt_id, "infra") > 0
        /\ e.usage["fullstack"] > 0

RECURSIVE SumOver(_, _)
\* The sum of f[x] over the finite set S.
SumOver(f, S) ==
    IF S = {} THEN 0
    ELSE LET x == CHOOSE y \in S : TRUE IN f[x] + SumOver(f, S \ {x})

\* C8 as stated: in the returned report the usage and entity totals are the
\* sums of the totals of the DG nodes of the returned list other than
\* 'Unassigned'.
C8_TotalsMatchReturnedDGs ==
    pc = "done" =>
        LET named == {i \in 1..Len(report.dgs) : report.dgs[i].name # UnassignedName}
        IN  /\ \A m \in usage_types :
                report.totals.usage[m]
                    = SumOver([i \in named |-> report.dgs[i].totals.usage[m]], named)
            /\ \A t \in EntityTypeSet :
                report.totals.entities[t]
                    = SumOver([i \in named |-> report.dgs[i].totals.entities[t]], named)

TotalsComputed == pc \in {"filter", "done"}

\* The billed entries of a bucket, by index.
BilledIn(bucket, m) == {i \in 1..Len(bucket) : bucket[i].billed /\ m \in DOMAIN bucket[i].usage}

\* C9: once the totals are computed, the usage of every IS node is, for each
\* usage type, the sum of that usage over the entries with billed = True of
\* its three buckets.
C9_ISUsageIsBilledSum ==
    TotalsComputed =>
        \A i \in 1..Len(report.dgs) :
            \A j \in 1..Len(report.dgs[i].information_systems) :
                LET is == report.dgs[i].information_systems[j]
                    part(t, m) == SumOver([k \in BilledIn(is.entities[t], m) |->
                                            is.entities[t][k].usage[m]],
                                          BilledIn(is.entities[t], m))
                IN  \A m \in usage_types :
                        is.usage[m] = part("hosts", m) + part("applications", m)
                                        + part("synthetics", m)

\* C9 witness: an IS node with computed usage holds a billed entry with usage
\* and another entry that is not billed.
C9_Witness ==
    /\ TotalsComputed
    /\ \E i \in 1..Len(report.dgs) :
          \E j \in 1..Len(report.dgs[i].information_systems) :
              \E t \in EntityTypeSet :
                  LET b == report.dgs[i].information_systems[j].entities[t]
                  IN  /\ \E k \in 1..Len(b) : b[k].billed /\ \E m \in DOMAIN b[k].usage : b[k].usage[m] > 0
                      /\ \E k \in 1..Len(b) : ~ b[k].billed

\* C10 as stated: once the totals are computed, the usage totals of every DG
\* node are the sum of the usage of its IS nodes plus the usage recorded in
\* its unassigned_entities.
C10_UnitTotalsFromRecordedUsage ==
    TotalsComputed =>
        \A i \in 1..Len(report.dgs) :
            LET node == report.dgs[i]
                iss == 1..Len(node.information_systems)
            IN  "usage" \in DOMAIN node.unassigned_entities =>
                    \A m \in usage_types :
                        node.totals.usage[m]
                            = SumOver([j \in iss |-> node.information_systems[j].usage[m]], iss)
                                + node.unassigned_entities.usage[m]

\* ---------------------------------------------------------------- C11
\* C11 as stated: every entry created anywhere in the tree for an entity that
\* is not billable stores 0 for every usage type, whatever its raw usage.
C11_Original ==
    \A id \in DOMAIN resources :
        ~ IsBillable(id) =>
            \A d \in DGNames : \A e \in EntriesOfIn(id, d) :
                \A m \in DOMAIN e.usage : e.usage[m] = 0

\* The quantity of usage type m the entry of a non-billable entity id stores
\* in the node of DG d: the undivided or evenly divided raw usage in the DGs
\* it is charged to, for a host in every DG it is placed in.
C11_Stored(id, d, m) ==
    LET row == resources[id]
        prio == priority_dg \in Range(row.dgs)
    IN  IF row.kind = "hosts"
        THEN IF Dropped(id, m) THEN 0 ELSE Raw(id, m) * Scale
        ELSE IF prio
             THEN IF d = priority_dg THEN Raw(id, m) * Scale ELSE 0
             ELSE Div(Raw(id, m), Len(row.dgs))

\* C11 amended: every entry of an entity that is not billable has
\* billed = False and stores the entity's actual usage share (not 0); a DG
\* node all of whose entries are of non-billable entities has, once the totals
\* are computed, usage totals of 0 for every usage type.
C11_NonBillableNeverBilled ==
    /\ \A id \in DOMAIN resources :
          ~ IsBillable(id) =>
              \A d \in DGNames : \A e \in EntriesOfIn(id, d) :
                  /\ ~ e.billed
                  /\ \A m \in DOMAIN e.usage : e.usage[m] = C11_Stored(id, d, m)
    /\ TotalsComputed =>
          \A i \in 1..Len(report.dgs) :
              (/\ report.dgs[i].name \in DGNames
               /\ \A t \in EntityTypeSet : \A e \in EntriesIn(report.dgs[i], t) :
                      ~ IsBillable(e.dt_id))
                  => \A m \in usage_types : report.dgs[i].totals.usage[m] = 0

\* C11 witness: the totals are computed over a DG node that holds an entry of
\* a non-billable entity with a usage above 0, and the node's total of that
\* usage type is 0.
C11_Witness ==
    /\ TotalsComputed
    /\ \E id \in DOMAIN resources : \E d \in DGNames : \E m \in usage_types :
          /\ ~ IsBillable(id)
          /\ \E e \in EntriesOfIn(id, d) : m \in DOMAIN e.usage /\ e.usage[m] > 0
          /\ NodeNamed(d).totals.usage[m] = 0

\* ---------------------------------------------------------------- C12
\* The DGs the processor of entity id charges (chargeback.py:334-337,
\* 438-443, 545-551).
ChargedOf(id) ==
    IF resources[id].kind = "hosts"
    THEN host_charged_dgs(resources[id]) ELSE other_charged_dgs(resources[id])

\* The DGs entity id is tagged to but not charged to.
NonCharged(id) == Range(resources[id].dgs) \ Range(ChargedOf(id))

C12_Case(id) == calls[id] >= 1 /\ TreeComplete

\* C12 as stated: with the include flag on, every tagged-but-not-charged DG
\* holds one entry of the entity whose usage is 0 for every usage type; with
\* the flag off it holds none.  For hosts, applications and synthetics.
C12_Original ==
    \A id \in DOMAIN resources :
        C12_Case(id) =>
            \A d \in NonCharged(id) :
                IF include_non_charged_entities_in_dg
                THEN /\ Cardinality(EntriesOfIn(id, d)) = 1
                     /\ \A e \in EntriesOfIn(id, d) : \A m \in DOMAIN e.usage : e.usage[m] = 0
                ELSE EntriesOfIn(id, d) = {}

\* C12 amended: with the include flag on, every tagged-but-not-charged DG
\* holds one entry of the entity; for an application or a synthetic its usage
\* is 0 for every usage type, for a host it has billed = False and carries
\* the same usage as the host's entry in the charged DG.  With the flag off
\* it holds none.
C12_NonChargedPlaceholder ==
    \A id \in DOMAIN resources :
        C12_Case(id) =>
            \A d \in NonCharged(id) :
                IF include_non_charged_entities_in_dg
                THEN /\ Cardinality(EntriesOfIn(id, d)) = 1
                     /\ \A e \in EntriesOfIn(id, d) :
                            IF resources[id].kind = "hosts"
                            THEN /\ ~ e.billed
                                 /\ \A c \in Range(ChargedOf(id)) :
                                        \A m \in DOMAIN e.usage : e.usage[m] = CreditedIn(id, c, m)
                            ELSE \A m \in DOMAIN e.usage : e.usage[m] = 0
                ELSE EntriesOfIn(id, d) = {}

\* C12 witness: with the include flag on, a processed host with usage has an
\* entry in a DG it is tagged but not charged to.
C12_Witness ==
    \E id \in DOMAIN resources : \E d \in DGNames :
        /\ C12_Case(id)
        /\ include_non_charged_entities_in_dg
        /\ resources[id].kind = "hosts"
        /\ d \in NonCharged(id)
        /\ \E e \in EntriesOfIn(id, d) : e.usage["fullstack"] > 0

\* C12 second case reached: with the include flag off, a processed
\* application is tagged to a DG it is not charged to.
C12_WitnessOff ==
    \E id \in DOMAIN resources :
        /\ C12_Case(id)
        /\ ~ include_non_charged_entities_in_dg
        /\ resources[id].kind = "applications"
        /\ NonCharged(id) # {}

\* ---------------------------------------------------------------- C13
\* The DG list without the node named 'Unassigned'.
WithoutUnassigned(dgs) == SelectSeq(dgs, LAMBDA dg : dg.name # UnassignedName)

\* C13: once _calculate_totals has run (and before the DG list is filtered),
\* unassigned_totals is the totals of the 'Unassigned' node (all zero if
\* there is none), and report.totals is what _calculate_totals yields for the
\* same tree without the 'Unassigned' node.
C13_UnassignedKeptApart ==
    pc = "filter" =>
        /\ report.unassigned_totals =
              IF HasNode(UnassignedName) THEN NodeNamed(UnassignedName).totals ELSE ZeroTotals
        /\ report.totals =
              _calculate_totals([report EXCEPT !.dgs = WithoutUnassigned(@)]).totals

\* C13 witness: the totals are computed over a tree with an 'Unassigned' node
\* that has usage and entities, and with usage in the other DGs.
C13_Witness ==
    /\ pc = "filter"
    /\ HasNode(UnassignedName)
    /\ report.unassigned_totals.usage["fullstack"] > 0
    /\ report.unassigned_totals.entities["hosts"] > 0
    /\ \E m \in usage_types : report.totals.usage[m] > 0

\* ---------------------------------------------------------------- C14
\* The entries of the 'Unassigned' node, as <<entity type, index, entry>>.
UnassignedEntries ==
    IF HasNode(UnassignedName)
    THEN LET un == NodeNamed(UnassignedName).unassigned_entities.entities
         IN  UNION {{<<t, k, un[t][k]>> : k \in 1..Len(un[t])} : t \in EntityTypeSet}
    ELSE {}

\* The identities the processors placed: those with an entry in a DG node
\* other than 'Unassigned'.
PlacedIds ==
    {e.dt_id : e \in UNION {EntriesIn(report.dgs[i], t) :
                    <<i, t>> \in {x \in (1..Len(report.dgs)) \X EntityTypeSet :
                                    report.dgs[x[1]].name # UnassignedName}}}

\* C14: once the unassigned handler has run (and before the DG list is
\* filtered), no identity with an entry in a DG node has an entry in the
\* 'Unassigned' node, no entity a processor was called on has one, and no
\* identity has two entries in the 'Unassigned' node, whatever the number of
\* usage types the unassigned usage collection lists it under.
C14_UnassignedDedup ==
    pc \in {"totals", "filter"} =>
        /\ \A x \in UnassignedEntries :
              /\ x[3].dt_id \notin PlacedIds
              /\ x[3].dt_id \in DOMAIN resources => calls[x[3].dt_id] = 0
        /\ \A x, y \in UnassignedEntries : x[3].dt_id = y[3].dt_id => x = y

\* C14 witness: the unassigned handler has run on a collection that lists the
\* first entity of the database, already placed by its processor, and an
\* identity under two usage types; the 'Unassigned' node holds that identity.
C14_Witness ==
    /\ pc = "filter"
    /\ calls["e1"] >= 1
    /\ "e1" \in PlacedIds
    /\ \E x \in UnassignedEntries : x[3].dt_id = "u1"

\* C14, other direction reached: the first entity of the database, never
\* processed because its DGs were not requested, is in the 'Unassigned' node.
C14_WitnessAdded ==
    /\ pc = "filter"
    /\ calls["e1"] = 0
    /\ \E x \in UnassignedEntries : x[3].dt_id = "e1"

\* ---------------------------------------------------------------- C15
\* A report with every list whose order carries no meaning taken as a set:
\* the buckets, the IS nodes of a DG node and the DG nodes.
CanonIS(isnode) == [isnode EXCEPT !.entities = [t \in EntityTypeSet |-> Range(@[t])]]

CanonDG(node) ==
    [node EXCEPT
        !.information_systems = {CanonIS(@[j]) : j \in 1..Len(@)},
        !.unassigned_entities.entities = [t \in EntityTypeSet |-> Range(@[t])]]

Canon(rep) == [rep EXCEPT !.dgs = {CanonDG(@[i]) : i \in 1..Len(@)}]

\* C15: a report generated by a new ChargebackReport for the same database,
\* usage and configuration, with the DG names or the entities of the DGs (or
\* both) processed in another order, has the same DG nodes, IS nodes, buckets
\* (as sets of entries) and totals as the first.
C15_OrderIndependent ==
    (run = 2 /\ pc = "done") => Canon(report) = Canon(first)

\* C15 witness: the second report is returned after the DGs and the entities
\* were processed in another order; it holds two DG nodes with entries, two
\* entries in one bucket, and usage.
C15_Witness ==
    /\ run = 2
    /\ pc = "done"
    /\ Len(dg_names) >= 3
    /\ first.dgs # report.dgs
    /\ \E b \in Buckets(report.dgs) : Len(b[4]) = 2
    /\ \E i, j \in 1..Len(report.dgs) :
          /\ i # j
          /\ report.dgs[i].totals.usage # ZeroUsage
          /\ report.dgs[j].totals.usage # ZeroUsage

\* ---------------------------------------------------------------- C16
\* C16 as stated: a second generate_report on the same ChargebackReport
\* object, with the same DG names, database and usage, returns a report equal
\* to the first.
C16_SecondInvocationEqual ==
    (run = 2 /\ pc = "done") => report = first

\* ---------------------------------------------------------------- C17
\* The places of the entries of entity type t in a DG node: <<j, k>> is entry
\* k of the bucket of IS node j, <<0, k>> entry k of the unassigned-in-unit
\* bucket.
Places(node, t) ==
    UNION {{<<j, k>> : k \in 1..Len(node.information_systems[j].entities[t])} :
              j \in 1..Len(node.information_systems)}
    \cup {<<0, k>> : k \in 1..Len(node.unassigned_entities.entities[t])}

EntryAt(node, t, pl) ==
    IF pl[1] = 0 THEN node.unassigned_entities.entities[t][pl[2]]
    ELSE node.information_systems[pl[1]].entities[t][pl[2]]

\* C17: once the totals are computed, the entity count of every DG node is,
\* per entity type, the number of entries of that type in its IS buckets and
\* its unassigned-in-unit bucket, billed or not, and its managed_hosts is the
\* number of its host entries with managed = True, billed or not.
C17_EntityCounts ==
    TotalsComputed =>
        \A i \in 1..Len(report.dgs) :
            LET node == report.dgs[i]
            IN  /\ \A t \in EntityTypeSet :
                      node.totals.entities[t] = Cardinality(Places(node, t))
                /\ node.totals.managed_hosts =
                      Cardinality({pl \in Places(node, "hosts") :
                                      LET e == EntryAt(node, "hosts", pl)
                                      IN  "managed" \in DOMAIN e /\ e.managed})

\* C17 witness: the totals are computed over a DG node with two host entries,
\* one of them managed and not billed.
C17_Witness ==
    /\ TotalsComputed
    /\ \E i \in 1..Len(report.dgs) :
          LET node == report.dgs[i]
          IN  /\ node.totals.entities["hosts"] = 2
              /\ node.totals.managed_hosts >= 1
              /\ \E pl \in Places(node, "hosts") :
                    LET e == EntryAt(node, "hosts", pl)
                    IN  "managed" \in DOMAIN e /\ e.managed /\ ~ e.billed

\* ---------------------------------------------------------------- C18
\* C18: when a processor is about to place the entries of an entity, the DG
\* list it places them in (the report's, after chargeback.py:342-346) has a
\* node for every DG the entity is tagged to and for every DG it is charged
\* to, so the lookup at chargeback.py:374 finds a node for each of them; and
\* once a processor has run on an entity, every DG it places the entity in
\* holds an entry of it (no placement was skipped).
C18_NodeBeforePlacement ==
    /\ pc = "entities" =>
          LET row == resources[Current]
              ensured == EnsureDGs(report.dgs, row.dgs)
          IN  \A d \in Range(row.dgs) \cup Range(ChargedOf(Current)) :
                  IndexOfName(ensured, d) # 0
    /\ \A id \in DOMAIN resources :
          (calls[id] >= 1 /\ TreeComplete) =>
              \A d \in Range(processed_dgs(resources[id], ChargedOf(id))) :
                  HasNode(d) /\ EntriesOfIn(id, d) # {}

\* C18 witness: a processed entity has an entry in the node of a DG it is
\* tagged to that was not requested, a node its processor had to create.
C18_Witness ==
    \E id \in DOMAIN resources : \E d \in Range(resources[id].dgs) :
        /\ calls[id] >= 1
        /\ TreeComplete
        /\ d \notin Range(dg_names)
        /\ EntriesOfIn(id, d) # {}

\* ---------------------------------------------------------------- C19
\* The step of the DG loop on a name without DG row.
C19_OnUnknownName == pc = "dg" /\ dg_names[di] \notin DGNames

\* C19: the step of generate_report on a requested name without DG row
\* leaves the report and processed_entities as they are and moves on to the
\* next name (or past the loop), and the returned report has no node of that
\* name and, for every other requested name, a node holding an entry of
\* every entity tagged to that DG which its processor places there.
C19_UnknownNameSkipped ==
    /\ [][C19_OnUnknownName =>
            /\ report' = report
            /\ processed_entities' = processed_entities
            /\ di' = di + 1
            /\ pc' = IF di < Len(dg_names) THEN "dg"
                     ELSE IF process_unassigned THEN "unassigned" ELSE "totals"]_vars
    /\ [](pc = "done" =>
            /\ \A d \in Range(dg_names) \ DGNames : ~ HasNode(d)
            /\ \A d \in Range(dg_names) \cap DGNames :
                  /\ HasNode(d)
                  /\ \A id \in DOMAIN resources :
                        d \in Range(processed_dgs(resources[id], ChargedOf(id)))
                            => EntriesOfIn(id, d) # {})

\* C19 witness: a report is returned for a request with an unknown name
\* ahead of a DG of the database, whose node holds entries.
C19_Witness ==
    /\ pc = "done"
    /\ \E i, j \in 1..Len(dg_names) :
          /\ i < j
          /\ dg_names[i] \notin DGNames
          /\ dg_names[j] \in DGNames
          /\ HasNode(dg_names[j])
          /\ \E t \in EntityTypeSet : EntriesIn(NodeNamed(dg_names[j]), t) # {}

\* ---------------------------------------------------------------- C20
\* The futures whose query returned a result, in the order they were
\* submitted.
C20_Succeeded ==
    {f \in 1..Len(collector.submitted) : f \notin collector.failed /\ f \notin collector.futures}

\* The identities the returned results have an item for.
C20_Collected == {collector.results[k].dt_id : k \in 1..Len(collector.results)}

\* C20: a collector never leaves by an exception of a query; when it returns,
\* every requested DG name was queried, and the results hold exactly the
\* items the queries that did not fail returned, those of a failed query
\* being left out; and a host without item in the results, once processed,
\* has in every entry a quantity of 0 for the usage type of the collector.
C20_FailedQueryIsolated ==
    /\ collector.pc # "raised"
    /\ collector.pc \in {"returned", "mapped"} =>
          /\ collector.task_queue = <<>>
          /\ collector.futures = {}
          /\ {collector.submitted[f].dg : f \in 1..Len(collector.submitted)} = Range(dg_names)
          /\ Range(collector.results) =
                UNION {Range(QueryResult(collector.submitted[f].query, collector.submitted[f].dg)) :
                          f \in C20_Succeeded}
          /\ Len(collector.results) =
                SumOver([f \in C20_Succeeded |->
                            Len(QueryResult(collector.submitted[f].query, collector.submitted[f].dg))],
                        C20_Succeeded)
    /\ collector.pc = "mapped" =>
          \A id \in DOMAIN resources :
              (calls[id] >= 1 /\ TreeComplete /\ id \notin C20_Collected) =>
                  /\ \A d \in Range(processed_dgs(resources[id], ChargedOf(id))) :
                        EntriesOfIn(id, d) # {}
                  /\ \A d \in DGNames : \A e \in EntriesOfIn(id, d) :
                        e.usage[collector.usage_type] = 0

\* C20 witness: the query of one DG failed and the query of another returned
\* items; a processed host whose only items were those of the failed query
\* has an entry with quantity 0, and another host an entry with the quantity
\* the results hold for it.
C20_Witness ==
    /\ collector.pc = "mapped"
    /\ TreeComplete
    /\ collector.failed # {}
    /\ \E id, other \in DOMAIN resources : \E d, c \in DGNames :
          /\ id \notin C20_Collected
          /\ calls[id] >= 1
          /\ \E f \in collector.failed : collector.submitted[f].dg \in Range(resources[id].dgs)
          /\ \E e \in EntriesOfIn(id, d) : e.usage[collector.usage_type] = 0
          /\ other \in C20_Collected
          /\ \E e \in EntriesOfIn(other, c) : e.usage[collector.usage_type] > 0

\* ---------------------------------------------------------------- C21
\* C21 as stated: when a collector returns, every DG name it was handed was
\* queried once and every query it submitted was the collector's own; the
\* usage map built from the results of the 'infra' collector holds, for every
\* identity, no other quantity than its infra usage.
C21_OwnQueryOncePerDG ==
    /\ collector.pc \in {"returned", "mapped"} =>
          /\ \A i \in 1..Len(dg_names) :
                Cardinality({f \in 1..Len(collector.submitted) :
                                collector.submitted[f].dg = dg_names[i]}) = 1
          /\ \A f \in 1..Len(collector.submitted) :
                collector.submitted[f].query = collector.usage_type
    /\ (collector.pc = "mapped" /\ collector.usage_type = "infra") =>
          \A id \in DOMAIN resources :
              usage_data["infra"][id] \in {0, RawOf(id, "infra")}

\* ---------------------------------------------------------------- C22
\* C22: in every state of a collector the queries submitted and not yet
\* collected are at most DT_QUERIES_THREADS, and when it has returned the
\* task queue is empty and every query it submitted was collected, with a
\* result or an exception.
C22_BoundedInFlight ==
    /\ Cardinality(collector.futures) <= DT_QUERIES_THREADS
    /\ collector.pending \subseteq collector.futures
    /\ collector.futures \subseteq 1..Len(collector.submitted)
    /\ collector.pc \in {"returned", "mapped"} =>
          /\ collector.task_queue = <<>>
          /\ collector.futures = {}
          /\ Len(collector.submitted) = Len(dg_names)

\* C22 witness: a collector has returned after more queries than the pool
\* has workers, one of them failed.
C22_Witness ==
    /\ collector.pc = "returned"
    /\ Len(collector.submitted) > DT_QUERIES_THREADS
    /\ collector.failed # {}

\* C22, the pool full: DT_QUERIES_THREADS queries are in flight and the task
\* queue still holds a DG name.
C22_WitnessPoolFull ==
    /\ collector.pc = "for"
    /\ Cardinality(collector.futures) = DT_QUERIES_THREADS
    /\ collector.task_queue # <<>>

\* ---------------------------------------------------------------- C26
\* Every host entry of the tree, the 'Unassigned' node included.
AllHostEntries == UNION {EntriesIn(report.dgs[i], "hosts") : i \in 1..Len(report.dgs)}

\* The quantity of usage type m an entry records, 0 if it has no such key.
Quantity(e, m) == IF m \in DOMAIN e.usage THEN e.usage[m] ELSE 0

\* C26: in every state, no host entry of the tree has both a non-zero
\* fullstack quantity and a non-zero infra quantity, whatever the raw usage
\* values of the host and the number of DGs it is charged to.
C26_FullstackInfraExclusive ==
    \A e \in AllHostEntries : ~ (Quantity(e, "fullstack") # 0 /\ Quantity(e, "infra") # 0)

\* C26 witness: a host with raw fullstack and raw infra usage, charged to two
\* DGs, has an entry with its fullstack share.
C26_Witness ==
    \E e \in TopologyHostEntries :
        /\ Raw(e.dt_id, "fullstack") > 0
        /\ Raw(e.dt_id, "infra") > 0
        /\ Len(host_charged_dgs(resources[e.dt_id])) = 2
        /\ e.usage["fullstack"] > 0

\* C26, the other tier reached: a host with raw infra usage only has an
\* entry with its infra share.
C26_WitnessInfra ==
    \E e \in TopologyHostEntries :
        /\ Raw(e.dt_id, "fullstack") = 0
        /\ e.usage["infra"] > 0

\* ---------------------------------------------------------------- C27
\* The names the returned DG list may hold: the sorted dg_names (the
\* caller's names behind 'DIGIT C', chargeback.py:62-66) and 'Unassigned'
\* when process_unassigned is on.
AllowedNames ==
    Range(dg_names) \cup (IF process_unassigned THEN {UnassignedName} ELSE {})

\* C27: the DG list generate_report returns holds only nodes of the caller's
\* dg_names, of 'DIGIT C' and, when process_unassigned is on, 'Unassigned';
\* a node created for a tagged DG that was not requested is not in it.  The
\* node of 'DIGIT C' is in it whatever the request, and the 'Unassigned' node
\* exactly when process_unassigned is on.
C27_ReturnedDGsRequestedOnly ==
    pc = "done" =>
        /\ \A i \in 1..Len(report.dgs) : report.dgs[i].name \in AllowedNames
        /\ dg_names[1] = priority_dg
        /\ priority_dg \in DGNames => HasNode(priority_dg)
        /\ HasNode(UnassignedName) <=> process_unassigned

\* C27 witness: a report is returned after a processor was called on an
\* entity tagged to a DG that was not requested, whose node was created.
C27_Witness ==
    /\ pc = "done"
    /\ \E id \in DOMAIN resources :
          /\ calls[id] >= 1
          /\ \E d \in Range(resources[id].dgs) : d \notin Range(dg_names)

\* C27, with the 'Unassigned' node returned.
C27_WitnessUnassigned ==
    /\ C27_Witness
    /\ process_unassigned
    /\ HasNode(UnassignedName)

\* ---------------------------------------------------------------- C28
\* The unassigned usage collection of the topology.
UnassignedData == CHOOSE data \in UnassignedDatas(resources) : TRUE

\* The usage types the unassigned usage collection lists identity id under.
UnassignedTypesOf(id) ==
    {UnassignedData[i].usage_type : i \in
        {j \in 1..Len(UnassignedData) :
            \E k \in 1..Len(UnassignedData[j].items) : UnassignedData[j].items[k].dt_id = id}}

\* The quantity the collection gives identity id under usage type m.
UnassignedValue(id, m) ==
    LET i == CHOOSE j \in 1..Len(UnassignedData) : UnassignedData[j].usage_type = m
        items == UnassignedData[i].items
        k == CHOOSE n \in 1..Len(items) : items[n].dt_id = id
    IN  items[k].value * Scale

\* The identities of the collection the database does not know (no DG
\* membership) that are listed under more than one usage type.
SeveralTypes ==
    {id \in UNION {{UnassignedData[i].items[k].dt_id : k \in 1..Len(UnassignedData[i].items)} :
                       i \in 1..Len(UnassignedData)} :
        id \notin DOMAIN resources /\ Cardinality(UnassignedTypesOf(id)) > 1}

\* C28 as stated: once the totals are computed, the totals of the
\* 'Unassigned' node include, for every identity without DG membership that
\* the unassigned usage collection lists under more than one usage type, its
\* quantity of every one of those usage types.
C28_UnassignedTotalsEveryKind ==
    (pc \in {"filter", "done"} /\ process_unassigned) =>
        \A m \in usage_types :
            NodeNamed(UnassignedName).totals.usage[m] >=
                SumOver([id \in SeveralTypes |->
                            IF m \in UnassignedTypesOf(id) THEN UnassignedValue(id, m) ELSE 0],
                        SeveralTypes)

\* ---------------------------------------------------------------- C30
\* No two elements of a sequence of nodes have the same name.
DistinctNames(seq) == \A i, j \in 1..Len(seq) : seq[i].name = seq[j].name => i = j

\* C30: in every state of the report tree no two DG nodes have the same name
\* and, in one DG node, no two IS nodes have the same name, whatever the
\* entities processed so far.
C30_NodeNamesDistinct ==
    /\ DistinctNames(report.dgs)
    /\ \A i \in 1..Len(report.dgs) : DistinctNames(report.dgs[i].information_systems)

\* C30 witness: a DG node created for a tagged DG before the loop reached
\* that DG is entered by the loop, and an IS node holds two entries, the
\* second one placed in the node the first one created.
C30_Witness ==
    /\ pc = "entities"
    /\ di > 1
    /\ \E id \in DOMAIN resources :
          /\ calls[id] >= 1
          /\ \E k \in 1..(di - 1) : dg_names[k] \in Range(resources[id].dgs)
          /\ dg_names[di] \in Range(resources[id].dgs)
    /\ \E i \in 1..Len(report.dgs) :
          \E n \in 1..Len(report.dgs[i].information_systems) :
              LET b == report.dgs[i].information_systems[n].entities
              IN  Len(b["hosts"]) + Len(b["applications"]) + Len(b["synthetics"]) >= 2

\* ---------------------------------------------------------------- C25
\* C25 as stated: update_host turns the managed flag of an IS to true only
\* when the host it refreshes is managed; the refresh of a host that is not
\* managed changes the managed flag of no IS.
C25_ISManagedOnlyByManagedHost ==
    [][\A is \in AllIS : is_rows'[is] # is_rows[is] => (is_rows'[is] /\ refreshed'.managed)]_vars

\* ---------------------------------------------------------------- C23
\* C23 as stated: at most one accepted report generation is unfinished at
\* any time, and every POST /generate handled while an accepted generation
\* is unfinished was answered with 400.
C23_AtMostOneGeneration ==
    /\ Cardinality(InProgress) <= 1
    /\ \A r \in 1..Len(responses) :
          responses[r].in_progress > 0 => responses[r].status_code = 400

\* ---------------------------------------------------------------- C29
\* The task at index t finishes in this step.
Finishes(t) == background_tasks[t].pc # "finished" /\ background_tasks'[t].pc = "finished"

\* C29: whenever a generate_report_background task finishes, report_status
\* is 'idle' if it succeeded and 'error' if it failed, never 'processing',
\* and its Report row has status 'completed' if it succeeded and 'error' if
\* it failed; the row of a finished task stays 'completed' or 'error'.
C29_FinishedLeavesNoProcessing ==
    /\ [][\A t \in 1..Len(background_tasks) :
              Finishes(t) =>
                  /\ report_status' # "processing"
                  /\ report_status' =
                        (IF background_tasks'[t].outcome = "ok" THEN "idle" ELSE "error")
                  /\ background_tasks'[t].status =
                        (IF background_tasks'[t].outcome = "ok" THEN "completed" ELSE "error")]_vars
    /\ [](\A t \in 1..Len(background_tasks) :
              background_tasks[t].pc = "finished" =>
                  background_tasks[t].status \in {"completed", "error"})

\* C29 witness: one task finished with its report saved, one finished after
\* generate_report raised, and report_status is 'error'.
C29_Witness ==
    /\ \E t \in 1..Len(background_tasks) :
          background_tasks[t].pc = "finished" /\ background_tasks[t].outcome = "ok"
    /\ \E t \in 1..Len(background_tasks) :
          background_tasks[t].pc = "finished" /\ background_tasks[t].outcome = "generate"
    /\ report_status = "error"

\* C29, success reached: the only task finished and report_status is 'idle'.
C29_WitnessIdle ==
    /\ Len(background_tasks) = 1
    /\ background_tasks[1].pc = "finished"
    /\ background_tasks[1].status = "completed"
    /\ report_status = "idle"

\* ---------------------------------------------------------------- C24
\* The quantity of usage type m the entries of identity id in a bucket add
\* up to, every entry counted.
CreditSeq(bucket, id, m) ==
    SumSeq([i \in 1..Len(bucket) |-> IF bucket[i].dt_id = id THEN bucket[i].usage[m] ELSE 0])

\* The same over the host buckets of a DG node and over all DG nodes.
CreditNode(node, id, m) ==
    SumSeq([i \in 1..Len(node.information_systems) |->
                CreditSeq(node.information_systems[i].entities["hosts"], id, m)])
        + CreditSeq(node.unassigned_entities.entities["hosts"], id, m)

CreditAll(id, m) == SumSeq([i \in 1..Len(report.dgs) |-> CreditNode(report.dgs[i], id, m)])

\* What a host is charged for usage type m: its raw usage, and nothing for
\* its infra usage when it has fullstack usage.
Chargeable(id, m) == IF Dropped(id, m) THEN 0 ELSE Raw(id, m) * Scale

\* C24 as stated: in a report of the HTTP-API engine, the shares a host
\* tagged to several DGs is credited with over all DG nodes add up to its
\* raw usage, whatever the DG names requested; and when every processed host
\* is counted once, the report totals are the sum of the raw usage of the
\* processed hosts.
C24_SharesSumToRaw ==
    pc = "done" =>
        /\ \A id \in DOMAIN resources : \A m \in MetricsOf("hosts") :
              (calls[id] >= 1 /\ Len(resources[id].dgs) >= 2) =>
                  CreditAll(id, m) = Chargeable(id, m)
        /\ \A m \in MetricsOf("hosts") :
              report.totals.usage[m] =
                  SumOver([id \in DOMAIN resources |->
                              IF calls[id] >= 1 THEN Chargeable(id, m) ELSE 0],
                          DOMAIN resources)

====
